---- MODULE Spec2Model ----
(***************************************************************************)
(* The front end of qur: the lexer (src/utils/lexer.cpp) and the           *)
(* recursive-descent parser AST::build (src/utils/ast.cpp).                *)
(*                                                                         *)
(* A parse function of the source returns a node or throws astError, and   *)
(* moves the cursor current_.  Here each parse function is an operator     *)
(* over (toks, p) whose value is a result record                           *)
(*    [ok, node, pos, err, log]                                            *)
(* ok = FALSE stands for the thrown astError err, pos is current_ when the *)
(* function returned or threw, and log is a history value: the set of node *)
(* types of the left-hand sides from which an assignOpNode was built       *)
(* during the call, kept also when the call ends in a throw.               *)
(***************************************************************************)
EXTENDS Integers, Sequences, FiniteSets, TLC

VARIABLES
    tokens_,       \* AST::tokens_
    current_,      \* AST::current_
    root_,         \* AST::root_ (Null = nullptr)
    declarations,  \* build's local vector of parsed declarations
    hadError,      \* build's local flag
    pc,            \* where build stands: "start", "loop", "done"
    outcome,       \* how build ended: "none", "returned", or the thrown message
    reported,      \* the messages build wrote to std::cerr, in order
    attempts,      \* history: the cursor positions where parseDeclaration was entered
    made,          \* history: left-hand-side node types that became assignOpNodes
    lines,         \* the lines std::getline reads from inFile
    row,           \* lexer: the index of the line being read
    i,             \* lexer: the index in the line of the character being read
    unLexed,       \* lexer: the characters of the line that started no token
    comment,       \* lexer: a // was met in the line
    lexer_tokens_, \* lexer::tokens_
    lpc,           \* where the lexer stands: "idle", "line", "done"
    run,           \* which AST object is at work: the first or the second
    first          \* history: how build ended on the first AST object

astVars == <<tokens_, current_, root_, declarations, hadError, pc, outcome,
             reported, attempts, made>>

lexerVars == <<lines, row, i, unLexed, comment, lexer_tokens_, lpc>>

runVars == <<run, first>>

vars == <<astVars, lexerVars, runVars>>

----------------------------------------------------------------------------
(* Tokens *)

Tok(t, lx) == [type |-> t, lexme |-> lx, line |-> 0, column |-> 0]

eofToken == [type |-> "UNKNOWN", lexme |-> "", line |-> -1, column |-> -1]

\* The token sequence of one source line: the k-th token stands at column k-1.
Locate(seq) == [k \in 1..Len(seq) |-> [seq[k] EXCEPT !.column = k - 1]]

----------------------------------------------------------------------------
(* AST nodes *)

Null == [type |-> "NULL"]

stringLiteralNode(v) == [type |-> "LITERAL", value |-> v]
intLiteralNode(v) == [type |-> "INT", value |-> v]
doubleLiteralNode(v) == [type |-> "DOUBLE", value |-> v]
charLiteralNode(v) == [type |-> "CHAR", value |-> v]
booleanLiteralNode(v) == [type |-> "BOOL", value |-> v]
variableNode(n) == [type |-> "VARIABLE", name |-> n, varType |-> "INFERRED"]
unaryOpNode(o, e) == [type |-> "UNARYOP", op |-> o, operand |-> e]
binaryOpNode(o, l, r) == [type |-> "BINARYOP", op |-> o, left |-> l, right |-> r]
assignOpNode(t, v, o) == [type |-> "ASSIGNOP", targetName |-> t, value |-> v, op |-> o]
fnCallNode(n, a) == [type |-> "FNCALL", name |-> n, args |-> a]
importNode(p) == [type |-> "STATEMENT", path |-> p]
ifNode(c, t, e) == [type |-> "IF", condition |-> c, thenBody |-> t, elseBody |-> e]
forNode(ini, c, inc, b) ==
    [type |-> "FOR", init |-> ini, condition |-> c, increment |-> inc, body |-> b]
whileNode(c, b) == [type |-> "WHILE", condition |-> c, body |-> b]
returnNode(v) == [type |-> "RETURN", value |-> v]
breakNode == [type |-> "BREAK"]
continueNode == [type |-> "CONTINUE"]
varDeclNode(t, n, init) ==
    [type |-> "VARDECL", varType |-> t, name |-> n, initializer |-> init]
paramNode(t, n) == [type |-> t, name |-> n]
functionNode(rt, n, ps, b) ==
    [type |-> "FUNCTION", returnType |-> rt, name |-> n, params |-> ps, body |-> b]
bodyNode(s) == [type |-> "BODY", statements |-> s]
programNode(d) == [type |-> "PROGRAM", declarations |-> d]

----------------------------------------------------------------------------
(* Results of the parse functions *)

NoErr == [msg |-> "", line |-> -1, column |-> -1, found |-> ""]

Ok(n, p) == [ok |-> TRUE, node |-> n, pos |-> p, err |-> NoErr, log |-> {}]

Throw(p, e) == [ok |-> FALSE, node |-> Null, pos |-> p, err |-> e, log |-> {}]

\* astError(msg): a message with no position.
astError(m) == [msg |-> m, line |-> -1, column |-> -1, found |-> ""]

\* Sequencing: r has run; when it threw, the throw propagates, otherwise the
\* rest of the function body F runs from r.  The history log accumulates.
\* (x ranges over the one value of r, so that r is evaluated once.)
Bind(r, F(_)) ==
    CHOOSE s \in {IF x.ok THEN [F(x) EXCEPT !.log = x.log \cup @] ELSE x : x \in {r}} :
        TRUE

----------------------------------------------------------------------------
(* Cursor primitives *)

isAtEnd(toks, p) == p >= Len(toks)

peek(toks, p) == IF isAtEnd(toks, p) THEN eofToken ELSE toks[p + 1]

previous(toks, p) ==
    IF p = 0 THEN (IF toks = <<>> THEN eofToken ELSE toks[1]) ELSE toks[p]

\* (A variant of advance: the cursor moves on at the end too.)
advanceUnguarded(toks, p) == p + 1

\* The cursor after advance().
advance(toks, p) == IF ~isAtEnd(toks, p) THEN p + 1 ELSE p

check(toks, p, t) == IF isAtEnd(toks, p) THEN FALSE ELSE peek(toks, p).type = t

\* match(type) and match({types}) succeed, and advance, when this holds.
match(toks, p, types) == \E t \in types : check(toks, p, t)

consume(toks, p, t, errorMsg) ==
    IF check(toks, p, t)
    THEN Ok(previous(toks, advance(toks, p)), advance(toks, p))
    ELSE LET current == peek(toks, p)
         IN Throw(p, [msg |-> errorMsg, line |-> current.line,
                      column |-> current.column, found |-> current.lexme])

tokenTypeToVarType(t) ==
    CASE t = "INT" -> "INT"
      [] t = "DOUBLE" -> "DOUBLE"
      [] t = "CHAR" -> "CHAR"
      [] t = "BOOLEAN" -> "BOOLEAN"
      [] t = "STRING" -> "STRING"
      [] t = "VOID" -> "VOID"
      [] OTHER -> "INFERRED"

----------------------------------------------------------------------------
(* Expressions: AST::parseExpression .. AST::parsePrimary *)

\* (A variant of LevelOps: the additive and the multiplicative loop exchange
\* their operator sets.)
LevelOpsExchanged(lvl) ==
    CASE lvl = 1 -> {"OR"}
      [] lvl = 2 -> {"AND"}
      [] lvl = 3 -> {"EQUAL", "NOTEQUAL"}
      [] lvl = 4 -> {"LESSTHAN", "MORETHAN", "LESSTHANEQUAL", "MORETHANEQUAL"}
      [] lvl = 5 -> {"MUL", "DIV", "MOD"}
      [] lvl = 6 -> {"ADD", "SUB"}

\* The operator tokens each binary level matches, lowest level first.
LevelOps(lvl) ==
    CASE lvl = 1 -> {"OR"}
      [] lvl = 2 -> {"AND"}
      [] lvl = 3 -> {"EQUAL", "NOTEQUAL"}
      [] lvl = 4 -> {"LESSTHAN", "MORETHAN", "LESSTHANEQUAL", "MORETHANEQUAL"}
      [] lvl = 5 -> {"ADD", "SUB"}
      [] lvl = 6 -> {"MUL", "DIV", "MOD"}

AssignTokens ==
    {"ASSIGN", "ASSIGN_ADD", "ASSIGN_SUB", "ASSIGN_MUL", "ASSIGN_DIV", "ASSIGN_MOD"}

UnaryTokens == {"NOT", "SUB", "INVERT", "INCREMENT", "DECREMENT"}

\* value.find('.') != npos, for the numeric lexemes of the model.
HasDot(lx) == lx \in {"2.5"}

\* std::stoi on the integer lexemes of the model.
stoi(lx) == CASE lx = "5" -> 5 [] lx = "7" -> 7 [] lx = "42" -> 42 [] OTHER -> 0

\* std::stod on the lexemes with a '.': the value in tenths.
stod(lx) == CASE lx = "2.5" -> 25 [] OTHER -> 0

\* The character a char token's payload denotes (the escape switch).
charValue(lx) ==
    CASE lx = "" -> "\\0"
      [] lx = "\\n" -> "\n"
      [] lx = "\\t" -> "\t"
      [] lx = "\\r" -> "\r"
      [] lx = "\\0" -> "\\0"
      [] lx = "\\\\" -> "\\"
      [] lx = "\\'" -> "'"
      [] lx = "char" -> "c"
      [] OTHER -> lx

RECURSIVE parseAssignment(_, _)
RECURSIVE BinaryLoop(_, _, _)
RECURSIVE parseUnary(_, _)
RECURSIVE CallArguments(_, _, _)
RECURSIVE PostfixLoop(_, _)
RECURSIVE parseMultiplication(_, _)
RECURSIVE parseAddition(_, _)
RECURSIVE parseComparison(_, _)
RECURSIVE parseEquality(_, _)
RECURSIVE parseLogicalAnd(_, _)

parseExpression(toks, p) == parseAssignment(toks, p)

parsePrimary(toks, p) ==
    IF match(toks, p, {"STRING"})
    THEN Ok(stringLiteralNode(toks[p + 1].lexme), p + 1)
    ELSE IF check(toks, p, "IDENTIFIER") /\ peek(toks, p).lexme \in {"true", "false"}
    THEN Ok(booleanLiteralNode(peek(toks, p).lexme = "true"), advance(toks, p))
    ELSE IF match(toks, p, {"LITERAL"})
    THEN LET value == toks[p + 1].lexme
         IN IF HasDot(value)
            THEN Ok(doubleLiteralNode(stod(value)), p + 1)
            ELSE Ok(intLiteralNode(stoi(value)), p + 1)
    ELSE IF match(toks, p, {"CHAR"})
    THEN Ok(charLiteralNode(charValue(toks[p + 1].lexme)), p + 1)
    ELSE IF match(toks, p, {"IDENTIFIER"})
    THEN Ok(variableNode(toks[p + 1].lexme), p + 1)
    ELSE IF match(toks, p, {"LPAREN"})
    THEN Bind(parseExpression(toks, p + 1), LAMBDA expr :
         Bind(consume(toks, expr.pos, "RPAREN", "Expected ')' after expression"),
              LAMBDA c : Ok(expr.node, c.pos)))
    ELSE LET current == peek(toks, p)
         IN Throw(p, [msg |-> "Expected expression", line |-> current.line,
                      column |-> current.column, found |-> current.lexme])

\* do { args.push_back(parseExpression()); } while (match(COMMA));
CallArguments(toks, p, args) ==
    Bind(parseExpression(toks, p), LAMBDA a :
        IF match(toks, a.pos, {"COMMA"})
        THEN CallArguments(toks, a.pos + 1, Append(args, a.node))
        ELSE Ok(Append(args, a.node), a.pos))

\* while (match({INCREMENT, DECREMENT})) expr = unaryOpNode(op + "_postfix", expr);
PostfixLoop(toks, r) ==
    IF match(toks, r.pos, {"INCREMENT", "DECREMENT"})
    THEN PostfixLoop(toks, Ok(unaryOpNode(<<toks[r.pos + 1].lexme, "_postfix">>, r.node),
                              r.pos + 1))
    ELSE r

parseCall(toks, p) ==
    Bind(parsePrimary(toks, p), LAMBDA expr :
        IF check(toks, expr.pos, "LPAREN") /\ expr.node.type = "VARIABLE"
        THEN LET q == advance(toks, expr.pos)
                 args == IF ~check(toks, q, "RPAREN")
                         THEN CallArguments(toks, q, <<>>)
                         ELSE Ok(<<>>, q)
             IN Bind(args, LAMBDA a :
                Bind(consume(toks, a.pos, "RPAREN",
                             "Expected ')' after function arguments"),
                     LAMBDA c : Ok(fnCallNode(expr.node.name, a.node), c.pos)))
        ELSE PostfixLoop(toks, Ok(expr.node, expr.pos)))

parseUnary(toks, p) ==
    IF match(toks, p, UnaryTokens)
    THEN Bind(parseUnary(toks, p + 1), LAMBDA right :
              Ok(unaryOpNode(toks[p + 1].lexme, right.node), right.pos))
    ELSE parseCall(toks, p)

\* The operand of a binary level is parsed by the next higher level.
Operand(toks, p, lvl) ==
    CASE lvl = 1 -> parseLogicalAnd(toks, p)
      [] lvl = 2 -> parseEquality(toks, p)
      [] lvl = 3 -> parseComparison(toks, p)
      [] lvl = 4 -> parseAddition(toks, p)
      [] lvl = 5 -> parseMultiplication(toks, p)
      [] lvl = 6 -> parseUnary(toks, p)

RECURSIVE BinaryLoopRight(_, _, _)
\* (A variant of BinaryLoop: the rest of the chain becomes the right operand.)
BinaryLoopRight(toks, expr, lvl) ==
    IF match(toks, expr.pos, LevelOps(lvl))
    THEN LET op == toks[expr.pos + 1].lexme
         IN Bind(Operand(toks, expr.pos + 1, lvl), LAMBDA right :
            Bind(BinaryLoopRight(toks, Ok(right.node, right.pos), lvl), LAMBDA rest :
                 Ok(binaryOpNode(op, expr.node, rest.node), rest.pos)))
    ELSE expr

\* while (match(ops)) { op = previous().lexme; right = <operand>();
\*                      expr = binaryOpNode(op, expr, right); }
BinaryLoop(toks, expr, lvl) ==
    IF match(toks, expr.pos, LevelOps(lvl))
    THEN LET op == toks[expr.pos + 1].lexme
         IN Bind(Operand(toks, expr.pos + 1, lvl), LAMBDA right :
                 BinaryLoop(toks, Ok(binaryOpNode(op, expr.node, right.node), right.pos),
                            lvl))
    ELSE expr

parseMultiplication(toks, p) ==
    Bind(parseUnary(toks, p), LAMBDA expr : BinaryLoop(toks, expr, 6))

parseAddition(toks, p) ==
    Bind(parseMultiplication(toks, p), LAMBDA expr : BinaryLoop(toks, expr, 5))

parseComparison(toks, p) ==
    Bind(parseAddition(toks, p), LAMBDA expr : BinaryLoop(toks, expr, 4))

parseEquality(toks, p) ==
    Bind(parseComparison(toks, p), LAMBDA expr : BinaryLoop(toks, expr, 3))

parseLogicalAnd(toks, p) ==
    Bind(parseEquality(toks, p), LAMBDA expr : BinaryLoop(toks, expr, 2))

parseLogicalOr(toks, p) ==
    Bind(parseLogicalAnd(toks, p), LAMBDA expr : BinaryLoop(toks, expr, 1))

\* (A variant of IsAssignTarget: a call, which has a name too, is let through.)
IsAssignTargetNamed(expr) == expr.type \in {"VARIABLE", "FNCALL"}

\* Whether parseAssignment builds the assignOpNode from the left-hand side expr.
IsAssignTarget(expr) == expr.type = "VARIABLE"

\* The assignOpNode built from the left-hand side expr; the history log records
\* the node type of expr.
MakeAssign(expr, value, op, p) ==
    [Ok(assignOpNode(expr.name, value, op), p) EXCEPT !.log = {expr.type}]

\* (A variant of parseAssignment: nothing is thrown for a left-hand side that is
\* no target, and the function returns it.)
parseAssignmentNoThrow(toks, p) ==
    Bind(parseLogicalOr(toks, p), LAMBDA expr :
        IF match(toks, expr.pos, AssignTokens)
        THEN LET op == toks[expr.pos + 1].lexme
             IN Bind(parseAssignment(toks, expr.pos + 1), LAMBDA value :
                    IF IsAssignTarget(expr.node)
                    THEN MakeAssign(expr.node, value.node, op, value.pos)
                    ELSE Ok(expr.node, value.pos))
        ELSE expr)

\* (A variant of parseAssignment: the right-hand side is parsed by
\* parseLogicalOr, not by parseAssignment itself.)
parseAssignmentFlat(toks, p) ==
    Bind(parseLogicalOr(toks, p), LAMBDA expr :
        IF match(toks, expr.pos, AssignTokens)
        THEN LET op == toks[expr.pos + 1].lexme
             IN Bind(parseLogicalOr(toks, expr.pos + 1), LAMBDA value :
                    IF IsAssignTarget(expr.node)
                    THEN MakeAssign(expr.node, value.node, op, value.pos)
                    ELSE Throw(value.pos, astError("Invalid assignment target")))
        ELSE expr)

parseAssignment(toks, p) ==
    Bind(parseLogicalOr(toks, p), LAMBDA expr :
        IF match(toks, expr.pos, AssignTokens)
        THEN LET op == toks[expr.pos + 1].lexme
             IN Bind(parseAssignment(toks, expr.pos + 1), LAMBDA value :
                    IF IsAssignTarget(expr.node)
                    THEN MakeAssign(expr.node, value.node, op, value.pos)
                    ELSE Throw(value.pos, astError("Invalid assignment target")))
        ELSE expr)

----------------------------------------------------------------------------
(* Declarations and statements: AST::parseDeclaration .. AST::parseBody *)

TypeTokens == {"INT", "DOUBLE", "CHAR", "BOOLEAN", "STRING"}

RECURSIVE parseDeclaration(_, _)
RECURSIVE parseStatement(_, _)
RECURSIVE BodyLoop(_, _, _)
RECURSIVE ParameterLoop(_, _, _)
RECURSIVE ImportPath(_, _, _)

\* while (!check(RBRACE) && !isAtEnd()) { if (match(SEMICOLON)) continue;
\*     stmt = parseDeclaration(); if (stmt) statements.push_back(stmt); }
BodyLoop(toks, p, statements) ==
    IF ~check(toks, p, "RBRACE") /\ ~isAtEnd(toks, p)
    THEN IF match(toks, p, {"SEMICOLON"})
         THEN BodyLoop(toks, p + 1, statements)
         ELSE Bind(parseDeclaration(toks, p), LAMBDA stmt :
                   BodyLoop(toks, stmt.pos,
                            IF stmt.node.type # "NULL"
                            THEN Append(statements, stmt.node) ELSE statements))
    ELSE Ok(statements, p)

parseBody(toks, p) ==
    Bind(consume(toks, p, "LBRACE", "Expected '{'"), LAMBDA open :
    Bind(BodyLoop(toks, open.pos, <<>>), LAMBDA statements :
    Bind(consume(toks, statements.pos, "RBRACE", "Expected '}'"), LAMBDA close :
         Ok(bodyNode(statements.node), close.pos))))

RECURSIVE ParameterLoopReversed(_, _, _)
\* (A variant of ParameterLoop: each parameter is put in front of the earlier ones.)
ParameterLoopReversed(toks, p, params) ==
    IF ~match(toks, p, TypeTokens)
    THEN Throw(p, astError("Expected parameter type"))
    ELSE LET paramType == tokenTypeToVarType(previous(toks, p + 1).type)
         IN Bind(consume(toks, p + 1, "IDENTIFIER", "Expected parameter name"),
                 LAMBDA paramName :
                    LET ps == <<paramNode(paramType, paramName.node.lexme)>> \o params
                    IN IF match(toks, paramName.pos, {"COMMA"})
                       THEN ParameterLoopReversed(toks, paramName.pos + 1, ps)
                       ELSE Ok(ps, paramName.pos))

\* do { type; name; params.emplace_back(type, name); } while (match(COMMA));
ParameterLoop(toks, p, params) ==
    IF ~match(toks, p, TypeTokens)
    THEN Throw(p, astError("Expected parameter type"))
    ELSE LET paramType == tokenTypeToVarType(previous(toks, p + 1).type)
         IN Bind(consume(toks, p + 1, "IDENTIFIER", "Expected parameter name"),
                 LAMBDA paramName :
                    LET ps == Append(params, paramNode(paramType, paramName.node.lexme))
                    IN IF match(toks, paramName.pos, {"COMMA"})
                       THEN ParameterLoop(toks, paramName.pos + 1, ps)
                       ELSE Ok(ps, paramName.pos))

parseFunction(toks, p) ==
    LET typed == match(toks, p, TypeTokens \cup {"VOID"})
        q == IF typed THEN p + 1 ELSE p
        returnType == IF typed THEN tokenTypeToVarType(previous(toks, q).type) ELSE "VOID"
    IN Bind(consume(toks, q, "IDENTIFIER", "Expected function name"), LAMBDA nameToken :
       Bind(consume(toks, nameToken.pos, "LPAREN", "Expected '(' after function name"),
            LAMBDA lp :
       Bind(IF ~check(toks, lp.pos, "RPAREN")
            THEN ParameterLoop(toks, lp.pos, <<>>)
            ELSE Ok(<<>>, lp.pos), LAMBDA params :
       Bind(consume(toks, params.pos, "RPAREN", "Expected ')' after parameters"),
            LAMBDA rp :
       Bind(parseBody(toks, rp.pos), LAMBDA body :
            Ok(functionNode(returnType, nameToken.node.lexme, params.node, body.node),
               body.pos))))))

\* (A variant of parseVarDeclaration: the type is taken from the token under the
\* cursor.)
parseVarDeclarationPeek(toks, p) ==
    LET varType == tokenTypeToVarType(peek(toks, p).type)
    IN Bind(consume(toks, p, "IDENTIFIER", "Expected variable name"), LAMBDA nameToken :
       Bind(IF match(toks, nameToken.pos, {"ASSIGN"})
            THEN parseExpression(toks, nameToken.pos + 1)
            ELSE Ok(Null, nameToken.pos), LAMBDA initializer :
       Bind(consume(toks, initializer.pos, "SEMICOLON",
                    "Expected ';' after variable declaration"), LAMBDA semi :
            Ok(varDeclNode(varType, nameToken.node.lexme, initializer.node), semi.pos))))

parseVarDeclaration(toks, p) ==
    LET varType == tokenTypeToVarType(previous(toks, p).type)
    IN Bind(consume(toks, p, "IDENTIFIER", "Expected variable name"), LAMBDA nameToken :
       Bind(IF match(toks, nameToken.pos, {"ASSIGN"})
            THEN parseExpression(toks, nameToken.pos + 1)
            ELSE Ok(Null, nameToken.pos), LAMBDA initializer :
       Bind(consume(toks, initializer.pos, "SEMICOLON",
                    "Expected ';' after variable declaration"), LAMBDA semi :
            Ok(varDeclNode(varType, nameToken.node.lexme, initializer.node), semi.pos))))

parseIfStatement(toks, p) ==
    Bind(consume(toks, p, "LPAREN", "Expected '(' after 'if'"), LAMBDA lp :
    Bind(parseExpression(toks, lp.pos), LAMBDA condition :
    Bind(consume(toks, condition.pos, "RPAREN", "Expected ')' after condition"),
         LAMBDA rp :
    Bind(parseStatement(toks, rp.pos), LAMBDA thenBranch :
    Bind(IF match(toks, thenBranch.pos, {"ELSE"})
         THEN parseStatement(toks, thenBranch.pos + 1)
         ELSE Ok(Null, thenBranch.pos), LAMBDA elseBranch :
         Ok(ifNode(condition.node, thenBranch.node, elseBranch.node), elseBranch.pos))))))

\* (A variant of parseWhileStatement: no ';' is asked for behind the body.)
parseWhileStatementLoose(toks, p) ==
    Bind(consume(toks, p, "LPAREN", "Expected '(' after 'while'"), LAMBDA lp :
    Bind(parseExpression(toks, lp.pos), LAMBDA condition :
    Bind(consume(toks, condition.pos, "RPAREN", "Expected ')' after condition"),
         LAMBDA rp :
    Bind(parseBody(toks, rp.pos), LAMBDA body :
         Ok(whileNode(condition.node, body.node), body.pos)))))

parseWhileStatement(toks, p) ==
    Bind(consume(toks, p, "LPAREN", "Expected '(' after 'while'"), LAMBDA lp :
    Bind(parseExpression(toks, lp.pos), LAMBDA condition :
    Bind(consume(toks, condition.pos, "RPAREN", "Expected ')' after condition"),
         LAMBDA rp :
    Bind(parseBody(toks, rp.pos), LAMBDA body :
    Bind(consume(toks, body.pos, "SEMICOLON", "Expected ';' after while body"),
         LAMBDA semi :
         Ok(whileNode(condition.node, body.node), semi.pos))))))

\* The initializer clause of a for statement, up to and including its ';'.
ForInitializer(toks, p) ==
    IF match(toks, p, {"SEMICOLON"})
    THEN Ok(Null, p + 1)
    ELSE IF match(toks, p, TypeTokens)
    THEN parseVarDeclaration(toks, p + 1)
    ELSE Bind(parseExpression(toks, p), LAMBDA expr :
         Bind(consume(toks, expr.pos, "SEMICOLON", "Expected ';' after for initializer"),
              LAMBDA semi : Ok(expr.node, semi.pos)))

parseForStatement(toks, p) ==
    Bind(consume(toks, p, "LPAREN", "Expected '(' after 'for'"), LAMBDA lp :
    Bind(ForInitializer(toks, lp.pos), LAMBDA initializer :
    Bind(IF ~check(toks, initializer.pos, "SEMICOLON")
         THEN parseExpression(toks, initializer.pos)
         ELSE Ok(Null, initializer.pos), LAMBDA condition :
    Bind(consume(toks, condition.pos, "SEMICOLON", "Expected ';' after for condition"),
         LAMBDA semi1 :
    Bind(IF ~check(toks, semi1.pos, "RPAREN")
         THEN parseExpression(toks, semi1.pos)
         ELSE Ok(Null, semi1.pos), LAMBDA increment :
    Bind(consume(toks, increment.pos, "RPAREN", "Expected ')' after for clauses"),
         LAMBDA rp :
    Bind(parseBody(toks, rp.pos), LAMBDA body :
    Bind(consume(toks, body.pos, "SEMICOLON", "Expected ';' after for body"),
         LAMBDA semi2 :
         Ok(forNode(initializer.node, condition.node, increment.node, body.node),
            semi2.pos)))))))))

parseReturnStatement(toks, p) ==
    Bind(IF ~check(toks, p, "SEMICOLON")
         THEN parseExpression(toks, p)
         ELSE Ok(Null, p), LAMBDA value :
    Bind(consume(toks, value.pos, "SEMICOLON", "Expected ';' after return statement"),
         LAMBDA semi : Ok(returnNode(value.node), semi.pos)))

parseStatement(toks, p) ==
    IF match(toks, p, {"IF"}) THEN parseIfStatement(toks, p + 1)
    ELSE IF match(toks, p, {"WHILE"}) THEN parseWhileStatement(toks, p + 1)
    ELSE IF match(toks, p, {"FOR"}) THEN parseForStatement(toks, p + 1)
    ELSE IF match(toks, p, {"RETURN"}) THEN parseReturnStatement(toks, p + 1)
    ELSE IF match(toks, p, {"BREAK"})
    THEN Bind(consume(toks, p + 1, "SEMICOLON", "Expected ';' after break"),
              LAMBDA semi : Ok(breakNode, semi.pos))
    ELSE IF match(toks, p, {"CONTINUE"})
    THEN Bind(consume(toks, p + 1, "SEMICOLON", "Expected ';' after continue"),
              LAMBDA semi : Ok(continueNode, semi.pos))
    ELSE IF check(toks, p, "LBRACE") THEN parseBody(toks, p)
    ELSE Bind(parseExpression(toks, p), LAMBDA expr :
         Bind(consume(toks, expr.pos, "SEMICOLON", "Expected ';' after expression"),
              LAMBDA semi : Ok(expr.node, semi.pos)))

\* while (!check(SEMICOLON) && !isAtEnd()) { t = advance(); path += t.lexme; }
ImportPath(toks, p, path) ==
    IF ~check(toks, p, "SEMICOLON") /\ ~isAtEnd(toks, p)
    THEN ImportPath(toks, p + 1, Append(path, toks[p + 1].lexme))
    ELSE Ok(path, p)

parseDeclaration(toks, p) ==
    IF check(toks, p, "RBRACE") \/ check(toks, p, "SEMICOLON")
    THEN Ok(Null, advance(toks, p))
    ELSE IF match(toks, p, {"FUNCTION"}) THEN parseFunction(toks, p + 1)
    ELSE IF match(toks, p, {"IMPORT"})
    THEN Bind(ImportPath(toks, p + 1, <<>>), LAMBDA path :
         Bind(consume(toks, path.pos, "SEMICOLON", "Expected ';' after import"),
              LAMBDA semi : Ok(importNode(path.node), semi.pos)))
    ELSE IF match(toks, p, TypeTokens) THEN parseVarDeclaration(toks, p + 1)
    ELSE parseStatement(toks, p)

----------------------------------------------------------------------------
(* AST::build *)

EmptyInput == "No tokens to parse - input file may be empty"
BuildFailed == "Failed to build AST due to parse errors"

\* (A variant of SyncStops: fn is not among the tokens synchronization stops at.)
SyncStopsWithoutFn == {"RBRACE", "IF", "WHILE", "FOR", "RETURN"}

SyncStops == {"RBRACE", "FUNCTION", "IF", "WHILE", "FOR", "RETURN"}

RECURSIVE SynchronizeBefore(_, _)
\* (A variant of Synchronize: the ';' it stops at is left in place.)
SynchronizeBefore(toks, p) ==
    IF isAtEnd(toks, p) THEN p
    ELSE IF peek(toks, p).type = "SEMICOLON" THEN p
    ELSE IF peek(toks, p).type \in SyncStops THEN p
    ELSE SynchronizeBefore(toks, advance(toks, p))

RECURSIVE Synchronize(_, _)
\* The catch block's loop: the cursor where it leaves off.
Synchronize(toks, p) ==
    IF isAtEnd(toks, p) THEN p
    ELSE IF peek(toks, p).type = "SEMICOLON" THEN advance(toks, p)
    ELSE IF peek(toks, p).type \in SyncStops THEN p
    ELSE Synchronize(toks, advance(toks, p))

\* (A variant of Stray: only ';' is skipped.)
StrayOnlySemicolon(toks, p) == check(toks, p, "SEMICOLON")

\* The stray ';' or '}' the top-level loop skips before it tries a declaration.
Stray(toks, p) == check(toks, p, "SEMICOLON") \/ check(toks, p, "RBRACE")

\* (A variant of BuildEmpty: the emptiness check is missing and the loop is entered.)
BuildEmptyUnchecked ==
    /\ pc = "start"
    /\ tokens_ = <<>>
    /\ pc' = "loop"
    /\ UNCHANGED <<tokens_, current_, root_, declarations, hadError, outcome, reported,
                   attempts, made>>
    /\ UNCHANGED lexerVars
    /\ UNCHANGED runVars

\* if (tokens_.empty()) throw astError(...)
BuildEmpty ==
    /\ pc = "start"
    /\ tokens_ = <<>>
    /\ pc' = "done"
    /\ outcome' = EmptyInput
    /\ UNCHANGED <<tokens_, current_, root_, declarations, hadError, reported,
                   attempts, made>>
    /\ UNCHANGED lexerVars
    /\ UNCHANGED runVars

\* The locals are set up and the loop is entered.
BuildBegin ==
    /\ pc = "start"
    /\ tokens_ # <<>>
    /\ pc' = "loop"
    /\ declarations' = <<>>
    /\ hadError' = FALSE
    /\ UNCHANGED <<tokens_, current_, root_, outcome, reported, attempts, made>>
    /\ UNCHANGED lexerVars
    /\ UNCHANGED runVars

\* One iteration: a stray ';' or '}' is skipped.
SkipStray ==
    /\ pc = "loop"
    /\ ~isAtEnd(tokens_, current_)
    /\ Stray(tokens_, current_)
    /\ current_' = advance(tokens_, current_)
    /\ UNCHANGED <<tokens_, root_, declarations, hadError, pc, outcome, reported,
                   attempts, made>>
    /\ UNCHANGED lexerVars
    /\ UNCHANGED runVars

\* One iteration: parseDeclaration returns.
DeclarationParsed ==
    /\ pc = "loop"
    /\ ~isAtEnd(tokens_, current_)
    /\ ~Stray(tokens_, current_)
    /\ \E decl \in {parseDeclaration(tokens_, current_)} :
          /\ decl.ok
          /\ declarations' = IF decl.node.type # "NULL"
                             THEN Append(declarations, decl.node) ELSE declarations
          /\ current_' = decl.pos
          /\ attempts' = Append(attempts, [at |-> current_, ok |-> TRUE,
                                          err |-> NoErr, threw |-> decl.pos])
          /\ made' = made \cup decl.log
    /\ UNCHANGED <<tokens_, root_, hadError, pc, outcome, reported>>
    /\ UNCHANGED lexerVars
    /\ UNCHANGED runVars

\* (A variant of DeclarationFailed: the catch block throws the aggregate failure
\* at once.)
DeclarationFailedAbort ==
    /\ pc = "loop"
    /\ ~isAtEnd(tokens_, current_)
    /\ ~Stray(tokens_, current_)
    /\ \E decl \in {parseDeclaration(tokens_, current_)} :
          /\ ~decl.ok
          /\ reported' = Append(reported, decl.err)
          /\ hadError' = TRUE
          /\ current_' = decl.pos
          /\ attempts' = Append(attempts, [at |-> current_, ok |-> FALSE,
                                          err |-> decl.err, threw |-> decl.pos])
          /\ made' = made \cup decl.log
    /\ pc' = "done"
    /\ outcome' = BuildFailed
    /\ UNCHANGED <<tokens_, root_, declarations>>
    /\ UNCHANGED lexerVars
    /\ UNCHANGED runVars

\* (A variant of DeclarationFailed: the catch block puts the cursor back where
\* the declaration began.)
DeclarationFailedRewind ==
    /\ pc = "loop"
    /\ ~isAtEnd(tokens_, current_)
    /\ ~Stray(tokens_, current_)
    /\ \E decl \in {parseDeclaration(tokens_, current_)} :
          /\ ~decl.ok
          /\ reported' = Append(reported, decl.err)
          /\ hadError' = TRUE
          /\ current_' = current_
          /\ attempts' = Append(attempts, [at |-> current_, ok |-> FALSE,
                                          err |-> decl.err, threw |-> decl.pos])
          /\ made' = made \cup decl.log
    /\ UNCHANGED <<tokens_, root_, declarations, pc, outcome>>
    /\ UNCHANGED lexerVars
    /\ UNCHANGED runVars

\* One iteration: parseDeclaration throws; the catch block reports the error
\* and synchronizes.
DeclarationFailed ==
    /\ pc = "loop"
    /\ ~isAtEnd(tokens_, current_)
    /\ ~Stray(tokens_, current_)
    /\ \E decl \in {parseDeclaration(tokens_, current_)} :
          /\ ~decl.ok
          /\ reported' = Append(reported, decl.err)
          /\ hadError' = TRUE
          /\ current_' = Synchronize(tokens_, decl.pos)
          /\ attempts' = Append(attempts, [at |-> current_, ok |-> FALSE,
                                          err |-> decl.err, threw |-> decl.pos])
          /\ made' = made \cup decl.log
    /\ UNCHANGED <<tokens_, root_, declarations, pc, outcome>>
    /\ UNCHANGED lexerVars
    /\ UNCHANGED runVars

\* (A variant of BuildThrow: the root is installed before hadError is looked at.)
BuildThrowRooted ==
    /\ pc = "loop"
    /\ isAtEnd(tokens_, current_)
    /\ hadError
    /\ root_' = programNode(declarations)
    /\ pc' = "done"
    /\ outcome' = BuildFailed
    /\ UNCHANGED <<tokens_, current_, declarations, hadError, reported, attempts, made>>
    /\ UNCHANGED lexerVars
    /\ UNCHANGED runVars

\* The loop has ended with hadError set: the aggregate failure is thrown.
BuildThrow ==
    /\ pc = "loop"
    /\ isAtEnd(tokens_, current_)
    /\ hadError
    /\ pc' = "done"
    /\ outcome' = BuildFailed
    /\ UNCHANGED <<tokens_, current_, root_, declarations, hadError, reported,
                   attempts, made>>
    /\ UNCHANGED lexerVars
    /\ UNCHANGED runVars

\* The loop has ended without an error: the root is installed.
BuildReturn ==
    /\ pc = "loop"
    /\ isAtEnd(tokens_, current_)
    /\ ~hadError
    /\ root_' = programNode(declarations)
    /\ pc' = "done"
    /\ outcome' = "returned"
    /\ UNCHANGED <<tokens_, current_, declarations, hadError, reported, attempts, made>>
    /\ UNCHANGED lexerVars
    /\ UNCHANGED runVars

----------------------------------------------------------------------------
(* The token sequences build is run on *)

MaxOps == 3
MaxLen == 3

Ident(k) == Tok("IDENTIFIER", CASE k = 1 -> "a" [] k = 2 -> "b" [] k = 3 -> "c"
                                [] k = 4 -> "d" [] OTHER -> "e")

BinaryOpTokens ==
    {Tok("OR", "|"), Tok("AND", "&"), Tok("EQUAL", "=="), Tok("NOTEQUAL", "!="),
     Tok("LESSTHAN", "<"), Tok("MORETHAN", ">"), Tok("LESSTHANEQUAL", "<="),
     Tok("MORETHANEQUAL", ">="), Tok("ADD", "+"), Tok("SUB", "-"), Tok("MUL", "*"),
     Tok("DIV", "/"), Tok("MOD", "%")}

AssignOpTokens ==
    {Tok("ASSIGN", "="), Tok("ASSIGN_ADD", "+="), Tok("ASSIGN_SUB", "-="),
     Tok("ASSIGN_MUL", "*="), Tok("ASSIGN_DIV", "/="), Tok("ASSIGN_MOD", "%=")}

Semi == Tok("SEMICOLON", ";")

\* a op1 b op2 c ... ; with the operators ops[1..Len(ops)]
Chain(ops) ==
    [k \in 1..(2 * Len(ops) + 2) |->
        IF k = 2 * Len(ops) + 2 THEN Semi
        ELSE IF k % 2 = 1 THEN Ident((k + 1) \div 2) ELSE ops[k \div 2]]

SeqsUpTo(S, n) == UNION {[1..k -> S] : k \in 0..n}

BinaryChains == {Chain(ops) : ops \in SeqsUpTo(BinaryOpTokens, MaxOps)}

AssignChains == {Chain(ops) : ops \in SeqsUpTo(AssignOpTokens, MaxOps)}

Alphabet ==
    {Tok("IDENTIFIER", "a"), Tok("LITERAL", "5"), Tok("ASSIGN", "="), Tok("ADD", "+"),
     Tok("LPAREN", "("), Tok("RPAREN", ")"), Tok("LBRACE", "{"), Tok("RBRACE", "}"),
     Semi, Tok("FUNCTION", "fn"), Tok("INT", "int"), Tok("RETURN", "return"),
     Tok("WHILE", "while"), Tok("IMPORT", "import")}

\* fn f ( ) { }
FnEmpty ==
    <<Tok("FUNCTION", "fn"), Tok("IDENTIFIER", "f"), Tok("LPAREN", "("),
      Tok("RPAREN", ")"), Tok("LBRACE", "{"), Tok("RBRACE", "}")>>

\* fn int g ( int a ) { return a ; }
FnTyped ==
    <<Tok("FUNCTION", "fn"), Tok("INT", "int"), Tok("IDENTIFIER", "g"),
      Tok("LPAREN", "("), Tok("INT", "int"), Tok("IDENTIFIER", "a"), Tok("RPAREN", ")"),
      Tok("LBRACE", "{"), Tok("RETURN", "return"), Tok("IDENTIFIER", "a"), Semi,
      Tok("RBRACE", "}")>>

Functions == {FnEmpty, FnTyped}

Tails == {<<>>} \cup Functions

Mixed == {s \o t : s \in SeqsUpTo(Alphabet, MaxLen), t \in Tails}

Id(n) == Tok("IDENTIFIER", n)
Five == Tok("LITERAL", "5")
Assign == Tok("ASSIGN", "=")

\* Statements with an assignment in them, well-formed and not.
AssignSamples ==
    {<<Five, Assign, Id("x"), Semi>>,                                     \* 5 = x ;
     <<Id("f"), Tok("LPAREN", "("), Tok("RPAREN", ")"), Assign, Id("a"), Semi>>,
                                                                          \* f ( ) = a ;
     <<Tok("LPAREN", "("), Id("a"), Tok("RPAREN", ")"), Assign, Five, Semi>>,
                                                                          \* ( a ) = 5 ;
     <<Id("a"), Tok("ADD", "+"), Id("b"), Assign, Five, Semi>>,           \* a + b = 5 ;
     <<Tok("SUB", "-"), Id("a"), Tok("ASSIGN_ADD", "+="), Five, Semi>>,   \* - a += 5 ;
     <<Id("a"), Assign, Five, Assign, Id("b"), Semi>>,                    \* a = 5 = b ;
     <<Id("true"), Assign, Five, Semi>>,                                  \* true = 5 ;
     <<Tok("STRING", "s"), Tok("ADD", "+"), Tok("CHAR", "\\n"), Semi>>,
     <<Five, Tok("MUL", "*"), Tok("LITERAL", "2.5"), Assign, Semi>>,      \* 5 * 2.5 = ;
     <<Tok("RETURN", "return"), Five, Assign, Id("a"), Semi>>}            \* return 5 = a ;

MaxParams == 2
MaxStatements == 2

\* The parameters a function declaration is written with: type keyword and name.
ParamChoices ==
    {[kind |-> "INT", kw |-> "int", name |-> "a"],
     [kind |-> "INT", kw |-> "int", name |-> "b"],
     [kind |-> "DOUBLE", kw |-> "double", name |-> "b"]}

\* The return types it is written with ("": none).
ReturnChoices ==
    {[kind |-> "", kw |-> ""], [kind |-> "INT", kw |-> "int"],
     [kind |-> "VOID", kw |-> "void"]}

StatementChoices == {"return", "assign", "declare"}

\* The tokens of the statements of a body.
StatementTokens(st) ==
    CASE st = "return" ->                                           \* return a + b ;
            <<Tok("RETURN", "return"), Id("a"), Tok("ADD", "+"), Id("b"), Semi>>
      [] st = "assign" -> <<Id("a"), Assign, Five, Semi>>            \* a = 5 ;
      [] st = "declare" -> <<Tok("INT", "int"), Id("c"), Semi>>      \* int c ;

RECURSIVE Concat(_)
Concat(seqs) == IF seqs = <<>> THEN <<>> ELSE Head(seqs) \o Concat(Tail(seqs))

\* type1 p1 , ... , typeN pN
ParamTokens(ps) ==
    Concat([k \in 1..Len(ps) |->
               (IF k > 1 THEN <<Tok("COMMA", ",")>> ELSE <<>>)
                   \o <<Tok(ps[k].kind, ps[k].kw), Id(ps[k].name)>>])

\* fn [type] add ( params ) { statements }
FnDecl(rt, ps, sts) ==
    <<Tok("FUNCTION", "fn")>> \o (IF rt.kind = "" THEN <<>> ELSE <<Tok(rt.kind, rt.kw)>>)
        \o <<Id("add"), Tok("LPAREN", "(")>> \o ParamTokens(ps)
        \o <<Tok("RPAREN", ")"), Tok("LBRACE", "{")>>
        \o Concat([k \in 1..Len(sts) |-> StatementTokens(sts[k])])
        \o <<Tok("RBRACE", "}")>>

FnDecls ==
    {FnDecl(rt, ps, sts) : rt \in ReturnChoices, ps \in SeqsUpTo(ParamChoices, MaxParams),
                           sts \in SeqsUpTo(StatementChoices, MaxStatements)}

\* Declarations that fail to parse.
MalformedDecls ==
    {<<Tok("WHILE", "while"), Tok("LPAREN", "("), Id("a"), Tok("RPAREN", ")"),
       Tok("LBRACE", "{"), Tok("RBRACE", "}")>>,                      \* while ( a ) { }
     <<Id("a"), Tok("ADD", "+"), Semi>>,                               \* a + ;
     <<Tok("INT", "int"), Assign, Five, Semi>>,                        \* int = 5 ;
     <<Tok("FUNCTION", "fn"), Id("f"), Tok("LPAREN", "("), Semi>>}     \* fn f ( ;

\* Declarations that parse: a variable declaration, a function, statements.
WellFormedDecls ==
    {<<Tok("INT", "int"), Id("b"), Semi>>,                             \* int b ;
     <<Tok("INT", "int"), Id("b"), Assign, Five, Semi>>,               \* int b = 5 ;
     FnEmpty,
     <<Id("a"), Assign, Five, Semi>>,                                  \* a = 5 ;
     <<Tok("RETURN", "return"), Id("a"), Semi>>,                       \* return a ;
     <<Tok("WHILE", "while"), Tok("LPAREN", "("), Id("a"), Tok("RPAREN", ")"),
       Tok("LBRACE", "{"), Tok("RBRACE", "}"), Semi>>}                 \* while ( a ) { } ;

RecoverySamples == {m \o d : m \in MalformedDecls, d \in WellFormedDecls}

\* while and for statements up to the '}' that closes the body.
LoopStatements ==
    {<<Tok("WHILE", "while"), Tok("LPAREN", "("), Id("a"), Tok("RPAREN", ")"),
       Tok("LBRACE", "{"), Tok("RBRACE", "}")>>,                      \* while ( a ) { }
     <<Tok("WHILE", "while"), Tok("LPAREN", "("), Id("a"), Tok("LESSTHAN", "<"), Five,
       Tok("RPAREN", ")"), Tok("LBRACE", "{"), Id("a"), Assign, Five, Semi,
       Tok("RBRACE", "}")>>,                                \* while ( a < 5 ) { a = 5 ; }
     <<Tok("FOR", "for"), Tok("LPAREN", "("), Semi, Semi, Tok("RPAREN", ")"),
       Tok("LBRACE", "{"), Tok("RBRACE", "}")>>,                      \* for ( ; ; ) { }
     <<Tok("FOR", "for"), Tok("LPAREN", "("), Tok("INT", "int"), Id("b"), Assign, Five,
       Semi, Id("b"), Tok("LESSTHAN", "<"), Five, Semi, Id("b"), Assign, Id("a"),
       Tok("RPAREN", ")"), Tok("LBRACE", "{"), Tok("RETURN", "return"), Id("b"), Semi,
       Tok("RBRACE", "}")>>,           \* for ( int b = 5 ; b < 5 ; b = a ) { return b ; }
     <<Tok("FOR", "for"), Tok("LPAREN", "("), Id("a"), Assign, Five, Semi, Semi, Id("a"),
       Tok("RPAREN", ")"), Tok("LBRACE", "{"), Tok("DOUBLE", "double"), Id("c"), Semi,
       Tok("RBRACE", "}")>>}                        \* for ( a = 5 ; ; a ) { double c ; }

\* What follows the '}'.
LoopFollowers ==
    {<<>>, <<Semi>>, <<Semi, Id("a"), Semi>>, <<Id("a"), Semi>>, <<Tok("RBRACE", "}")>>,
     <<Tok("INT", "int"), Id("b"), Semi>>, FnEmpty}

LoopSamples == {l \o f : l \in LoopStatements, f \in LoopFollowers}

Samples == AssignSamples \cup FnDecls \cup RecoverySamples \cup LoopSamples

Inputs == {Locate(s) : s \in BinaryChains \cup AssignChains \cup Mixed \cup Samples}

----------------------------------------------------------------------------
(* lexer::lexer: src/utils/lexer.cpp *)

\* A source line is a sequence of characters; a character is a one-character
\* string.  The words the switch compares against, as character sequences:
Word(lx) ==
    CASE lx = "return" -> <<"r", "e", "t", "u", "r", "n">>
      [] lx = "if" -> <<"i", "f">>
      [] lx = "int" -> <<"i", "n", "t">>
      [] lx = "elif" -> <<"e", "l", "i", "f">>
      [] lx = "else" -> <<"e", "l", "s", "e">>
      [] lx = "for" -> <<"f", "o", "r">>
      [] lx = "fn" -> <<"f", "n">>
      [] lx = "while" -> <<"w", "h", "i", "l", "e">>
      [] lx = "continue" -> <<"c", "o", "n", "t", "i", "n", "u", "e">>
      [] lx = "char" -> <<"c", "h", "a", "r">>
      [] lx = "break" -> <<"b", "r", "e", "a", "k">>
      [] lx = "boolean" -> <<"b", "o", "o", "l", "e", "a", "n">>
      [] lx = "double" -> <<"d", "o", "u", "b", "l", "e">>
      [] lx = "string" -> <<"s", "t", "r", "i", "n", "g">>

\* The branches of each keyword case, in the order the code tries them:
\* the word compared, and the token type pushed ("" where the branch is empty).
KeywordCase(c) ==
    CASE c = "r" -> <<[word |-> "return", type |-> "RETURN"]>>
      [] c = "i" -> <<[word |-> "if", type |-> "IF"], [word |-> "int", type |-> "INT"]>>
      [] c = "e" -> <<[word |-> "elif", type |-> "ELSEIF"],
                      [word |-> "else", type |-> "ELSE"]>>
      [] c = "f" -> <<[word |-> "for", type |-> "FOR"], [word |-> "fn", type |-> "FUNCTION"]>>
      [] c = "w" -> <<[word |-> "while", type |-> "WHILE"]>>
      [] c = "c" -> <<[word |-> "continue", type |-> "CONTINUE"],
                      [word |-> "char", type |-> ""]>>
      [] c = "b" -> <<[word |-> "break", type |-> "BREAK"],
                      [word |-> "boolean", type |-> "BOOLEAN"]>>
      [] c = "d" -> <<[word |-> "double", type |-> "DOUBLE"]>>
      [] c = "s" -> <<[word |-> "string", type |-> "STRING"]>>

KeywordStarts == {"r", "i", "e", "f", "w", "c", "b", "d", "s"}

Blanks == {" ", "\t", "\n", "\r"}

SingleChars ==
    {"{", "}", "(", ")", "[", "]", ";", ",", ".", "+", "*", "%", "&", "|", "~"}

\* '=', '<', '>', '!': the token type alone and the type with a following '='.
PairCase(c) ==
    CASE c = "=" -> [one |-> "ASSIGN", two |-> "EQUAL", lexme |-> "=="]
      [] c = "<" -> [one |-> "LESSTHAN", two |-> "LESSTHANEQUAL", lexme |-> "<="]
      [] c = ">" -> [one |-> "MORETHAN", two |-> "MORETHANEQUAL", lexme |-> ">="]
      [] c = "!" -> [one |-> "NOT", two |-> "NOTEQUAL", lexme |-> "!="]

PairStarts == {"=", "<", ">", "!"}

StringToToken(str) ==
    CASE str = "{" -> "LBRACE"
      [] str = "}" -> "RBRACE"
      [] str = "(" -> "LPAREN"
      [] str = ")" -> "RPAREN"
      [] str = "[" -> "LBRACK"
      [] str = "]" -> "RBRACK"
      [] str = ";" -> "SEMICOLON"
      [] str = ":" -> "COLON"
      [] str = "," -> "COMMA"
      [] str = "." -> "DOT"
      [] str = "=" -> "ASSIGN"
      [] str = "+" -> "ADD"
      [] str = "-" -> "SUB"
      [] str = "*" -> "MUL"
      [] str = "/" -> "DIV"
      [] str = "%" -> "MOD"
      [] str = "<" -> "LESSTHAN"
      [] str = ">" -> "MORETHAN"
      [] str = "!" -> "NOT"
      [] str = "&" -> "AND"
      [] str = "|" -> "OR"
      [] str = "~" -> "INVERT"
      [] OTHER -> "UNKNOWN"

\* line.compare(k, n, word) == 0: the at most n characters from index k are word.
compare(line, k, n, word) ==
    SubSeq(line, k + 1, IF k + n <= Len(line) THEN k + n ELSE Len(line)) = word

\* line[k], which is the terminating '\0' at k = line.size().
CharAt(line, k) == IF k < Len(line) THEN line[k + 1] ELSE "\\0"

\* (A variant of Token: the column is counted from 1.)
TokenOneBased(t, lx, r, c) == [type |-> t, lexme |-> lx, line |-> r, column |-> c + 1]

Token(t, lx, r, c) == [type |-> t, lexme |-> lx, line |-> r, column |-> c]

line == lines[row + 1]

InLine == lpc = "line" /\ i < Len(line) /\ ~comment

\* The first branch of the keyword case of c whose comparison succeeds (0: none).
KeywordBranch(ln, k) ==
    LET branches == KeywordCase(ln[k + 1])
        hits == {b \in 1..Len(branches) :
                    compare(ln, k, Len(Word(branches[b].word)), Word(branches[b].word))}
    IN IF hits = {} THEN 0 ELSE CHOOSE b \in hits : \A h \in hits : b <= h

\* The file is open: the first getline.
LexOpen ==
    /\ lpc = "idle"
    /\ lpc' = IF lines = <<>> THEN "done" ELSE "line"
    /\ UNCHANGED <<lines, row, i, unLexed, comment, lexer_tokens_>>
    /\ UNCHANGED astVars
    /\ UNCHANGED runVars

\* case 'r', 'i', 'e', 'f', 'w', 'c', 'b', 'd', 's'
LexKeyword ==
    /\ InLine
    /\ line[i + 1] \in KeywordStarts
    /\ LET b == KeywordBranch(line, i)
           branch == KeywordCase(line[i + 1])[b]
       IN IF b = 0
          THEN /\ unLexed' = Append(unLexed, line[i + 1])
               /\ i' = i + 1
               /\ UNCHANGED lexer_tokens_
          ELSE IF branch.type = ""
          THEN /\ i' = i + 1
               /\ UNCHANGED <<unLexed, lexer_tokens_>>
          ELSE /\ lexer_tokens_' =
                      Append(lexer_tokens_, Token(branch.type, branch.word, row, i))
               /\ i' = i + (Len(Word(branch.word)) - 1) + 1
               /\ UNCHANGED unLexed
    /\ UNCHANGED <<lines, row, comment, lpc>>
    /\ UNCHANGED astVars
    /\ UNCHANGED runVars

\* case ' ', '\t', '\n', '\r'
LexBlank ==
    /\ InLine
    /\ line[i + 1] \in Blanks
    /\ i' = i + 1
    /\ UNCHANGED <<lines, row, unLexed, comment, lexer_tokens_, lpc>>
    /\ UNCHANGED astVars
    /\ UNCHANGED runVars

\* case '{' .. '~': a token of the one character
LexSingle ==
    /\ InLine
    /\ line[i + 1] \in SingleChars
    /\ lexer_tokens_' =
           Append(lexer_tokens_, Token(StringToToken(line[i + 1]), line[i + 1], row, i))
    /\ i' = i + 1
    /\ UNCHANGED <<lines, row, unLexed, comment, lpc>>
    /\ UNCHANGED astVars
    /\ UNCHANGED runVars

\* (A variant of LexPair: a following '=' is not looked at, so that the two
\* characters become two tokens.)
LexPairSplit ==
    /\ InLine
    /\ line[i + 1] \in PairStarts
    /\ lexer_tokens_' =
           Append(lexer_tokens_, Token(PairCase(line[i + 1]).one, line[i + 1], row, i))
    /\ i' = i + 1
    /\ UNCHANGED <<lines, row, unLexed, comment, lpc>>
    /\ UNCHANGED astVars
    /\ UNCHANGED runVars

\* case '=', '<', '>', '!'
LexPair ==
    /\ InLine
    /\ line[i + 1] \in PairStarts
    /\ LET c == line[i + 1]
       IN IF CharAt(line, i + 1) = "="
          THEN /\ lexer_tokens_' =
                      Append(lexer_tokens_, Token(PairCase(c).two, PairCase(c).lexme, row, i))
               /\ i' = i + 2
          ELSE /\ lexer_tokens_' = Append(lexer_tokens_, Token(PairCase(c).one, c, row, i))
               /\ i' = i + 1
    /\ UNCHANGED <<lines, row, unLexed, comment, lpc>>
    /\ UNCHANGED astVars
    /\ UNCHANGED runVars

\* case '-'
LexSub ==
    /\ InLine
    /\ line[i + 1] = "-"
    /\ lexer_tokens_' = Append(lexer_tokens_, Token("SUB", "-", row, i))
    /\ i' = i + 1
    /\ UNCHANGED <<lines, row, unLexed, comment, lpc>>
    /\ UNCHANGED astVars
    /\ UNCHANGED runVars

\* (A variant of LexSlash: only the two characters of the // are passed over.)
LexSlashOnly ==
    /\ InLine
    /\ line[i + 1] = "/"
    /\ IF CharAt(line, i + 1) = "/"
       THEN /\ i' = i + 2
            /\ UNCHANGED <<comment, lexer_tokens_>>
       ELSE /\ lexer_tokens_' = Append(lexer_tokens_, Token("DIV", "/", row, i))
            /\ i' = i + 1
            /\ UNCHANGED comment
    /\ UNCHANGED <<lines, row, unLexed, lpc>>
    /\ UNCHANGED astVars
    /\ UNCHANGED runVars

\* case '/': a comment leaves the loop over the line
LexSlash ==
    /\ InLine
    /\ line[i + 1] = "/"
    /\ IF CharAt(line, i + 1) = "/"
       THEN /\ comment' = TRUE
            /\ UNCHANGED <<i, lexer_tokens_>>
       ELSE /\ lexer_tokens_' = Append(lexer_tokens_, Token("DIV", "/", row, i))
            /\ i' = i + 1
            /\ UNCHANGED comment
    /\ UNCHANGED <<lines, row, unLexed, lpc>>
    /\ UNCHANGED astVars
    /\ UNCHANGED runVars

\* default: the character is added to unLexed
LexDefault ==
    /\ InLine
    /\ line[i + 1] \notin KeywordStarts \cup Blanks \cup SingleChars \cup PairStarts
                          \cup {"-", "/"}
    /\ unLexed' = Append(unLexed, line[i + 1])
    /\ i' = i + 1
    /\ UNCHANGED <<lines, row, comment, lexer_tokens_, lpc>>
    /\ UNCHANGED astVars
    /\ UNCHANGED runVars

\* The loop over the line has ended: row++ and the next getline.
LexNextLine ==
    /\ lpc = "line"
    /\ i >= Len(line) \/ comment
    /\ row' = row + 1
    /\ i' = 0
    /\ unLexed' = <<>>
    /\ comment' = FALSE
    /\ lpc' = IF row + 1 < Len(lines) THEN "line" ELSE "done"
    /\ UNCHANGED <<lines, lexer_tokens_>>
    /\ UNCHANGED astVars
    /\ UNCHANGED runVars

----------------------------------------------------------------------------
(* The sources the lexer is run on *)

LexMaxLen == 3

\* int x = 5;
LineIntX ==
    <<"i", "n", "t", " ", "x", " ", "=", " ", "5", ";">>

\* a <= b != c
LineCompare ==
    <<"a", " ", "<", "=", " ", "b", " ", "!", "=", " ", "c">>

\* return a; // if
LineComment ==
    <<"r", "e", "t", "u", "r", "n", " ", "a", ";", " ", "/", "/", " ", "i", "f">>

\* fn add(int a) {
LineFn ==
    <<"f", "n", " ", "a", "d", "d", "(", "i", "n", "t", " ", "a", ")", " ", "{">>

\* iffy char else
LineWords ==
    <<"i", "f", "f", "y", " ", "c", "h", "a", "r", " ", "e", "l", "s", "e">>

\* a @ b
LineAt ==
    <<"a", " ", "@", " ", "b">>

\* a>=b==!c
LineEqual ==
    <<"a", ">", "=", "b", "=", "=", "!", "c">>

\* # ;
LineHash ==
    <<"#", " ", ";">>

SampleLines ==
    {LineIntX, LineCompare, LineComment, LineFn, LineWords, LineAt, LineEqual, LineHash}

LexAlphabet == {"i", "f", "n", "t", "x", "5", "=", "<", "/", " ", ";", "-"}

ShortLines == SeqsUpTo(LexAlphabet, LexMaxLen)

\* Words that start with or contain a keyword: iffy, integer, format, myif.
LineIffy == <<"i", "f", "f", "y">>
LineInteger == <<"i", "n", "t", "e", "g", "e", "r">>
LineFormat == <<"f", "o", "r", "m", "a", "t">>
LineMyif == <<"m", "y", "i", "f">>

WordLines == {LineIffy, LineInteger, LineFormat, LineMyif}

LineVoid == <<"v", "o", "i", "d">>

\* Each keyword as a line of its own.
KeywordLines ==
    {Word(kw) : kw \in {"if", "elif", "else", "for", "while", "continue", "break",
                        "return", "fn", "int", "double", "boolean", "char", "string"}}
        \cup {LineVoid}

\* "if"
LineQuotedIf == <<"\"", "i", "f", "\"">>

\* "a+b";
LineQuotedAdd == <<"\"", "a", "+", "b", "\"", ";">>

\* "a//b";
LineQuotedComment == <<"\"", "a", "/", "/", "b", "\"", ";">>

StringLines == {LineQuotedIf, LineQuotedAdd, LineQuotedComment}

\* The index of the first // of a line (Len: none).
CommentStart(ln) ==
    LET starts == {k \in 1..(Len(ln) - 1) : ln[k] = "/" /\ ln[k + 1] = "/"}
    IN IF starts = {} THEN Len(ln) ELSE (CHOOSE k \in starts : \A m \in starts : k <= m) - 1

\* The line up to its first //.
BeforeComment(ln) == SubSeq(ln, 1, CommentStart(ln))

\* = // if
LineAssignComment == <<"=", " ", "/", "/", " ", "i", "f">>

\* if/ //<=
LineSlashes == <<"i", "f", "/", " ", "/", "/", "<", "=">>

CommentLines ==
    {l \in ShortLines : CommentStart(l) < Len(l)}
        \cup {LineComment, LineAssignComment, LineSlashes}

Sources ==
    {<<>>} \cup {<<l>> : l \in ShortLines \cup SampleLines}
           \cup {<<l1, l2>> : l1 \in SampleLines, l2 \in SampleLines}
           \cup {<<l>> : l \in WordLines \cup KeywordLines \cup StringLines}
           \cup {<<l, BeforeComment(l)>> : l \in CommentLines}

----------------------------------------------------------------------------
(* The specifications *)

\* No build has ended yet.
NoRun == [outcome |-> "none", root |-> Null, reported |-> <<>>]

\* An AST object before build() is called.
ASTInit ==
    /\ current_ = 0
    /\ root_ = Null
    /\ declarations = <<>>
    /\ hadError = FALSE
    /\ outcome = "none"
    /\ reported = <<>>
    /\ attempts = <<>>
    /\ made = {}

\* Spec: AST(tokens).build() on the token sequences of Inputs; no lexer runs.
Init ==
    /\ tokens_ \in Inputs
    /\ pc = "start"
    /\ ASTInit
    /\ lines = <<>>
    /\ row = 0
    /\ i = 0
    /\ unLexed = <<>>
    /\ comment = FALSE
    /\ lexer_tokens_ = <<>>
    /\ lpc = "off"
    /\ run = 1
    /\ first = NoRun

Next ==
    \/ BuildEmpty
    \/ BuildBegin
    \/ SkipStray
    \/ DeclarationParsed
    \/ DeclarationFailed
    \/ BuildThrow
    \/ BuildReturn

Spec == Init /\ [][Next]_vars

\* (A variant of Construct: the cursor of the first object is taken over.)
ConstructKeepCursor ==
    /\ pc = "done"
    /\ run = 1
    /\ first' = [outcome |-> outcome, root |-> root_, reported |-> reported]
    /\ run' = 2
    /\ root_' = Null
    /\ pc' = "start"
    /\ outcome' = "none"
    /\ reported' = <<>>
    /\ attempts' = <<>>
    /\ made' = {}
    /\ UNCHANGED <<tokens_, current_, declarations, hadError>>
    /\ UNCHANGED lexerVars

\* AST::AST(tokens): a second AST object is constructed from the same tokens
\* once build has ended on the first; what the first run gave is kept in first.
Construct ==
    /\ pc = "done"
    /\ run = 1
    /\ first' = [outcome |-> outcome, root |-> root_, reported |-> reported]
    /\ run' = 2
    /\ current_' = 0
    /\ root_' = Null
    /\ pc' = "start"
    /\ outcome' = "none"
    /\ reported' = <<>>
    /\ attempts' = <<>>
    /\ made' = {}
    /\ UNCHANGED <<tokens_, declarations, hadError>>
    /\ UNCHANGED lexerVars

NextTwice ==
    \/ BuildEmpty
    \/ BuildBegin
    \/ SkipStray
    \/ DeclarationParsed
    \/ DeclarationFailed
    \/ BuildThrow
    \/ BuildReturn
    \/ Construct

\* SpecLive: build as in Spec, and a step is taken as long as one is possible:
\* build is one sequential call that runs until it returns or throws.
SpecLive == Init /\ [][Next]_vars /\ WF_vars(Next)

\* SpecTwice: build on an AST object, then on a second AST object constructed
\* from the same tokens.
SpecTwice == Init /\ [][NextTwice]_vars

\* SpecLex: lexer(inFile) on the files of Sources; no AST is built.
LexInit ==
    /\ lines \in Sources
    /\ row = 0
    /\ i = 0
    /\ unLexed = <<>>
    /\ comment = FALSE
    /\ lexer_tokens_ = <<>>
    /\ lpc = "idle"
    /\ tokens_ = <<>>
    /\ pc = "off"
    /\ ASTInit
    /\ run = 1
    /\ first = NoRun

LexNext ==
    \/ LexOpen
    \/ LexKeyword
    \/ LexBlank
    \/ LexSingle
    \/ LexPair
    \/ LexSub
    \/ LexSlash
    \/ LexDefault
    \/ LexNextLine

SpecLex == LexInit /\ [][LexNext]_vars

\* The characters of the text of a compound assignment operator.
CompoundChars(op) ==
    CASE op = "+=" -> <<"+", "=">>
      [] op = "-=" -> <<"-", "=">>
      [] op = "*=" -> <<"*", "=">>
      [] op = "/=" -> <<"/", "=">>
      [] op = "%=" -> <<"%", "=">>

\* a += b; and the like, and a = b;
AssignLine(op) ==
    <<"a", " ">> \o (IF op = "=" THEN <<"=">> ELSE CompoundChars(op)) \o <<" ", "b", ";">>

AssignLines == {AssignLine(op) : op \in {"=", "+=", "-=", "*=", "/=", "%="}}

\* return;
LineReturn == <<"r", "e", "t", "u", "r", "n", ";">>

PipeSources ==
    Sources \cup {<<l>> : l \in AssignLines \cup {LineReturn}}

\* A file before the lexer is constructed on it; no AST yet.
PipeInit ==
    /\ lines \in PipeSources
    /\ row = 0
    /\ i = 0
    /\ unLexed = <<>>
    /\ comment = FALSE
    /\ lexer_tokens_ = <<>>
    /\ lpc = "idle"
    /\ tokens_ = <<>>
    /\ pc = "off"
    /\ ASTInit
    /\ run = 1
    /\ first = NoRun

\* AST(lexer.getTokens()): the AST is constructed from the tokens of the lexer.
Handoff ==
    /\ lpc = "done"
    /\ pc = "off"
    /\ tokens_' = lexer_tokens_
    /\ current_' = 0
    /\ root_' = Null
    /\ pc' = "start"
    /\ UNCHANGED <<declarations, hadError, outcome, reported, attempts, made>>
    /\ UNCHANGED lexerVars
    /\ UNCHANGED runVars

PipeNext ==
    \/ LexOpen
    \/ LexKeyword
    \/ LexBlank
    \/ LexSingle
    \/ LexPair
    \/ LexSub
    \/ LexSlash
    \/ LexDefault
    \/ LexNextLine
    \/ Handoff
    \/ BuildEmpty
    \/ BuildBegin
    \/ SkipStray
    \/ DeclarationParsed
    \/ DeclarationFailed
    \/ BuildThrow
    \/ BuildReturn

\* SpecPipe: lexer(inFile), then AST(lexer.getTokens()).build().
SpecPipe == PipeInit /\ [][PipeNext]_vars

----------------------------------------------------------------------------
(* Properties of expression parsing *)

BinaryTypes ==
    {"OR", "AND", "EQUAL", "NOTEQUAL", "LESSTHAN", "MORETHAN", "LESSTHANEQUAL",
     "MORETHANEQUAL", "ADD", "SUB", "MUL", "DIV", "MOD"}

\* tokens_ is  x1 op1 x2 ... opn x(n+1) ;  with identifiers xk and operators of ops.
IsChain(toks, ops) ==
    /\ Len(toks) >= 2
    /\ Len(toks) % 2 = 0
    /\ toks[Len(toks)].type = "SEMICOLON"
    /\ \A k \in 1..(Len(toks) - 1) :
          IF k % 2 = 1 THEN toks[k].type = "IDENTIFIER" /\ toks[k].lexme \notin {"true", "false"}
          ELSE toks[k].type \in ops

NumOps(toks) == (Len(toks) - 2) \div 2

\* The precedence level of an operator, by its spelling, lowest first.
PrecedenceOf(op) ==
    CASE op = "|" -> 1
      [] op = "&" -> 2
      [] op \in {"==", "!="} -> 3
      [] op \in {"<", ">", "<=", ">="} -> 4
      [] op \in {"+", "-"} -> 5
      [] op \in {"*", "/", "%"} -> 6

RECURSIVE Flatten(_)
\* The operands and operators of a binary expression tree, left to right.
Flatten(n) ==
    IF n.type = "BINARYOP" THEN Flatten(n.left) \o <<n.op>> \o Flatten(n.right)
    ELSE IF n.type = "VARIABLE" THEN <<n.name>>
    ELSE <<"?">>

RECURSIVE TighterBelow(_)
\* No operator of the tree has a looser operator below it.
TighterBelow(n) ==
    n.type = "BINARYOP" =>
        /\ n.left.type = "BINARYOP" => PrecedenceOf(n.left.op) >= PrecedenceOf(n.op)
        /\ n.right.type = "BINARYOP" => PrecedenceOf(n.right.op) >= PrecedenceOf(n.op)
        /\ TighterBelow(n.left)
        /\ TighterBelow(n.right)

Var(name) == variableNode(name)

\* C1: in an expression of identifiers and binary operators, an operator of a
\* higher precedence level binds tighter than one of a lower level wherever it
\* stands: the tree keeps the tokens in order and no operator has a looser one
\* below it; a + b * c is +(a, *(b, c)) and a * b + c is +(*(a, b), c).
C1_Precedence ==
    (IsChain(tokens_, BinaryTypes) /\ current_ > 0) =>
        /\ Len(declarations) = 1
        /\ reported = <<>>
        /\ Flatten(declarations[1]) = [k \in 1..(Len(tokens_) - 1) |-> tokens_[k].lexme]
        /\ TighterBelow(declarations[1])
        /\ (NumOps(tokens_) = 2 /\ tokens_[2].type = "ADD" /\ tokens_[4].type = "MUL") =>
              declarations[1] =
                  binaryOpNode("+", Var("a"), binaryOpNode("*", Var("b"), Var("c")))
        /\ (NumOps(tokens_) = 2 /\ tokens_[2].type = "MUL" /\ tokens_[4].type = "ADD") =>
              declarations[1] =
                  binaryOpNode("+", binaryOpNode("*", Var("a"), Var("b")), Var("c"))

\* A looser operator written before a tighter one, and after one, were parsed.
C1_Witness ==
    /\ IsChain(tokens_, BinaryTypes)
    /\ NumOps(tokens_) = 3
    /\ tokens_[2].type = "MUL"
    /\ tokens_[4].type = "OR"
    /\ tokens_[6].type = "MOD"
    /\ Len(declarations) = 1
    /\ pc = "done"

\* All operators of the chain are of one precedence level.
OneLevel(toks) ==
    \A k \in 1..NumOps(toks) : PrecedenceOf(toks[2 * k].lexme) = PrecedenceOf(toks[2].lexme)

RECURSIVE FoldLeft(_, _)
\* ((x1 op1 x2) op2 x3) ... opn x(n+1)
FoldLeft(toks, n) ==
    IF n = 0 THEN Var(toks[1].lexme)
    ELSE binaryOpNode(toks[2 * n].lexme, FoldLeft(toks, n - 1), Var(toks[2 * n + 1].lexme))

RECURSIVE NoBinaryRight(_)
\* No right operand in the tree is itself a binary operation.
NoBinaryRight(n) ==
    n.type = "BINARYOP" => n.right.type # "BINARYOP" /\ NoBinaryRight(n.left)

\* C2: every binary operator is left-associative: a chain of operators of one
\* precedence level, of any length, parses to the left fold of the chain.
C2_LeftAssociative ==
    (IsChain(tokens_, BinaryTypes) /\ OneLevel(tokens_) /\ current_ > 0) =>
        /\ declarations = <<FoldLeft(tokens_, NumOps(tokens_))>>
        /\ NoBinaryRight(declarations[1])

\* A chain of three operators of one level, not all the same, was parsed.
C2_Witness ==
    /\ IsChain(tokens_, BinaryTypes)
    /\ OneLevel(tokens_)
    /\ NumOps(tokens_) = 3
    /\ tokens_[2].type # tokens_[4].type
    /\ Len(declarations) = 1
    /\ declarations[1].left.left.type = "BINARYOP"

RECURSIVE NestRight(_, _)
\* xk opk (x(k+1) op(k+1) ( ... x(n+1)))
NestRight(toks, k) ==
    IF k > NumOps(toks) THEN Var(toks[2 * k - 1].lexme)
    ELSE assignOpNode(toks[2 * k - 1].lexme, NestRight(toks, k + 1), toks[2 * k].lexme)

\* C3: assignment is right-associative: a chain of n assignments nests to the
\* right, a = b = c being AssignOp(a, =, AssignOp(b, =, c)).
C3_RightAssociative ==
    (IsChain(tokens_, AssignTokens) /\ current_ > 0) =>
        /\ declarations = <<NestRight(tokens_, 1)>>
        /\ reported = <<>>
        /\ (NumOps(tokens_) = 2 /\ \A k \in {2, 4} : tokens_[k].type = "ASSIGN") =>
              declarations[1] =
                  assignOpNode("a", assignOpNode("b", Var("c"), "="), "=")

\* A chain of three assignments was parsed.
C3_Witness ==
    /\ IsChain(tokens_, AssignTokens)
    /\ NumOps(tokens_) = 3
    /\ Len(declarations) = 1
    /\ declarations[1].value.value.type = "ASSIGNOP"
    /\ pc = "done"

----------------------------------------------------------------------------
(* Properties of assignment targets *)

InvalidAssignTarget == "Invalid assignment target"

\* The declaration that starts at cursor s is an expression statement.
ExpressionStatementAt(toks, s) ==
    /\ s < Len(toks)
    /\ toks[s + 1].type \notin
          {"FUNCTION", "IMPORT", "INT", "DOUBLE", "CHAR", "BOOLEAN", "STRING", "IF",
           "WHILE", "FOR", "RETURN", "BREAK", "CONTINUE", "LBRACE", "RBRACE", "SEMICOLON"}

\* From cursor s a left-hand side expression that is no Variable node is
\* parsed, and an assignment operator follows it.
BadTargetAt(toks, s) ==
    \E lhs \in {parseLogicalOr(toks, s)} :
        /\ lhs.ok
        /\ lhs.node.type # "VARIABLE"
        /\ \E t \in AssignTokens : check(toks, lhs.pos, t)

\* The right-hand side after that operator parses without error.
GoodValueAt(toks, s) ==
    \E lhs \in {parseLogicalOr(toks, s)} :
        \E rhs \in {parseAssignment(toks, lhs.pos + 1)} : rhs.ok

\* C4 as claimed: whenever an assignment operator follows a left-hand side
\* that is no Variable node, the error raised for the declaration is
\* InvalidAssignTarget, whatever follows the operator.
C4_AnyRightHandSide ==
    \A k \in 1..Len(attempts) :
        (ExpressionStatementAt(tokens_, attempts[k].at) /\ BadTargetAt(tokens_, attempts[k].at))
            => (~attempts[k].ok /\ attempts[k].err.msg = InvalidAssignTarget)

\* C4 as amended: the right-hand side is parsed first; when it parses without
\* error the declaration fails with InvalidAssignTarget, and when it does not,
\* the declaration fails with the error of the right-hand side.  The same holds
\* of parseAssignment from any cursor position.
C4_InvalidAssignTarget ==
    /\ \A k \in 1..Len(attempts) :
          (ExpressionStatementAt(tokens_, attempts[k].at)
             /\ BadTargetAt(tokens_, attempts[k].at)) =>
              \E lhs \in {parseLogicalOr(tokens_, attempts[k].at)} :
              \E rhs \in {parseAssignment(tokens_, lhs.pos + 1)} :
                  /\ ~attempts[k].ok
                  /\ rhs.ok => /\ attempts[k].err = astError(InvalidAssignTarget)
                               /\ attempts[k].threw = rhs.pos
                  /\ ~rhs.ok => /\ attempts[k].err = rhs.err
                                /\ attempts[k].threw = rhs.pos
    /\ pc = "done" =>
          \A p \in 0..(Len(tokens_) - 1) :
              BadTargetAt(tokens_, p) =>
                  \E lhs \in {parseLogicalOr(tokens_, p)} :
                  \E rhs \in {parseAssignment(tokens_, lhs.pos + 1)} :
                  \E r \in {parseAssignment(tokens_, p)} :
                      /\ ~r.ok
                      /\ rhs.ok => r.err.msg = InvalidAssignTarget
                      /\ ~rhs.ok => r.err = rhs.err

\* A declaration with a binary expression before the assignment operator and
\* a well-formed right-hand side after it has failed.
C4_Witness ==
    /\ Len(attempts) = 1
    /\ ExpressionStatementAt(tokens_, 0)
    /\ BadTargetAt(tokens_, 0)
    /\ GoodValueAt(tokens_, 0)
    /\ tokens_[2].type = "ADD"
    /\ attempts[1].err.msg = InvalidAssignTarget

\* C5: every assignOpNode the parser constructs, in a tree it returns or in a
\* partial tree it drops on an error, was constructed from a left-hand side
\* that was a Variable node.
C5_TargetsAreVariables == made \subseteq {"VARIABLE"}

\* An assignOpNode was constructed in a declaration that then failed, and so
\* was dropped with its partial tree.
C5_Witness ==
    /\ made = {"VARIABLE"}
    /\ Len(attempts) = 1
    /\ ~attempts[1].ok
    /\ declarations = <<>>
    /\ pc = "done"

----------------------------------------------------------------------------
(* Properties of AST::build *)

SomeAttemptFailed == \E k \in 1..Len(attempts) : ~attempts[k].ok

\* C6: build fails with the aggregate failure if and only if at least one
\* top-level declaration raised a parse error, and it raises that failure only
\* after the cursor has reached the end of the token sequence.
C6_AggregateFailure ==
    /\ outcome = BuildFailed => (SomeAttemptFailed /\ current_ = Len(tokens_))
    /\ (pc = "done" /\ SomeAttemptFailed) => outcome = BuildFailed
    /\ SomeAttemptFailed <=> reported # <<>>

\* The aggregate failure was raised after a failed declaration and a later,
\* successful one.
C6_Witness ==
    /\ outcome = BuildFailed
    /\ Len(attempts) >= 2
    /\ ~attempts[1].ok
    /\ attempts[2].ok
    /\ attempts[1].threw < attempts[2].at

\* S is one malformed statement: a statement starts at its first token, the
\* parse of S fails, and synchronization from the error uses up the rest of S.
MalformedStatement(S) ==
    /\ S # <<>>
    /\ S[1].type \notin {"FUNCTION", "IMPORT", "INT", "DOUBLE", "CHAR", "BOOLEAN", "STRING",
                         "RBRACE", "SEMICOLON"}
    /\ \E r \in {parseDeclaration(S, 0)} : ~r.ok /\ Synchronize(S, r.pos) = Len(S)

\* toks is one malformed statement followed by the function declaration F.
MalformedThenFunction(toks, F) ==
    /\ Len(toks) > Len(F)
    /\ \A k \in 1..Len(F) :
          /\ toks[Len(toks) - Len(F) + k].type = F[k].type
          /\ toks[Len(toks) - Len(F) + k].lexme = F[k].lexme
    /\ MalformedStatement(SubSeq(toks, 1, Len(toks) - Len(F)))

\* What build does then: the statement's error is reported, the function is
\* parsed completely and as it is on its own, and build fails as a whole.
ErrorThenFunction(F) ==
    /\ Len(attempts) = 2
    /\ ~attempts[1].ok
    /\ attempts[1].at = 0
    /\ reported = <<attempts[1].err>>
    /\ attempts[2].ok
    /\ attempts[2].at = Len(tokens_) - Len(F)
    /\ attempts[2].threw = Len(tokens_)
    /\ declarations = <<parseDeclaration(Locate(F), 0).node>>
    /\ declarations[1].type = "FUNCTION"
    /\ outcome = BuildFailed
    /\ root_ = Null

\* C7 as claimed: for one malformed statement followed by a well-formed
\* function declaration, build reports the statement's error, then parses the
\* function completely and without error, and then fails as a whole.
C7_AnyMalformedStatement ==
    pc = "done" =>
        \A F \in Functions : MalformedThenFunction(tokens_, F) => ErrorThenFunction(F)

\* The statement's error is raised before any token of the function F is consumed.
ErrorBeforeFunction(F) ==
    \E r \in {parseDeclaration(tokens_, 0)} : ~r.ok /\ r.pos <= Len(tokens_) - Len(F)

\* C7 as amended: the same, for a malformed statement whose error is raised at
\* one of its own tokens or at the fn that follows it, which is so unless the
\* statement ends inside a block or an import that is still open.
C7_ErrorThenFunction ==
    pc = "done" =>
        \A F \in Functions :
            (MalformedThenFunction(tokens_, F) /\ ErrorBeforeFunction(F))
                => ErrorThenFunction(F)

\* build has ended on a malformed statement of three tokens followed by the
\* function with a parameter and a return statement.
C7_Witness ==
    /\ pc = "done"
    /\ Len(tokens_) = 3 + Len(FnTyped)
    /\ MalformedThenFunction(tokens_, FnTyped)
    /\ ErrorBeforeFunction(FnTyped)
    /\ attempts[1].threw = 2
    /\ Len(declarations) = 1

\* C8: build on an empty token sequence fails with EmptyInput before any
\* declaration is attempted: the cursor stays at 0, no parse function is
\* entered and no root is set.
C8_EmptyInput ==
    /\ tokens_ = <<>> =>
          /\ pc \in {"start", "done"}
          /\ pc = "done" => outcome = EmptyInput
          /\ current_ = 0
          /\ attempts = <<>>
          /\ declarations = <<>>
          /\ reported = <<>>
          /\ root_ = Null
    /\ outcome = EmptyInput => tokens_ = <<>>

\* build has failed with EmptyInput.
C8_Witness == tokens_ = <<>> /\ pc = "done" /\ outcome = EmptyInput

\* C9: when build fails no Program root is installed; the root is set only
\* when every declaration parsed without error, and then it holds exactly the
\* successfully parsed declarations in source order.
C9_RootOnlyOnSuccess ==
    /\ (pc = "done" /\ outcome # "returned") => root_ = Null
    /\ pc # "done" => root_ = Null
    /\ root_ # Null =>
          /\ outcome = "returned"
          /\ ~SomeAttemptFailed
          /\ \A j \in 1..Len(attempts) : \A k \in 1..Len(attempts) :
                j < k => attempts[j].threw <= attempts[k].at
          /\ root_ = programNode([k \in 1..Len(attempts) |->
                                     parseDeclaration(tokens_, attempts[k].at).node])
    /\ (pc = "done" /\ tokens_ # <<>> /\ ~SomeAttemptFailed) => root_ # Null

\* build has failed after two declarations were parsed successfully, and no
\* root is installed.
C9_Witness ==
    /\ pc = "done"
    /\ outcome = BuildFailed
    /\ Len(declarations) = 2
    /\ root_ = Null
    /\ attempts[1].ok

----------------------------------------------------------------------------
(* Properties of the lexer *)

\* C10 as claimed: tokenizing the one-line source "int x = 5;" yields exactly
\* five tokens, in order Int, Identifier "x", Assign, Literal "5", Semicolon,
\* all on line 0 and with strictly increasing columns.
C10_IntXTokens ==
    (lines = <<LineIntX>> /\ lpc = "done") =>
        /\ Len(lexer_tokens_) = 5
        /\ [k \in 1..5 |-> lexer_tokens_[k].type]
              = <<"INT", "IDENTIFIER", "ASSIGN", "LITERAL", "SEMICOLON">>
        /\ lexer_tokens_[2].lexme = "x"
        /\ lexer_tokens_[4].lexme = "5"
        /\ \A k \in 1..5 : lexer_tokens_[k].line = 0
        /\ \A k \in 1..4 : lexer_tokens_[k].column < lexer_tokens_[k + 1].column

\* The token kind of each two-character operator.
TwoCharKind ==
    [start \in {"=", "<", ">", "!"} |->
        CASE start = "=" -> "EQUAL"
          [] start = "<" -> "LESSTHANEQUAL"
          [] start = ">" -> "MORETHANEQUAL"
          [] start = "!" -> "NOTEQUAL"]

RECURSIVE OperatorScan(_, _)
\* The columns of the two-character operators of the line ln from column k on,
\* read from left to right up to a // comment.
OperatorScan(ln, k) ==
    IF k + 1 >= Len(ln) THEN {}
    ELSE IF ln[k + 1] = "/" /\ ln[k + 2] = "/" THEN {}
    ELSE IF ln[k + 1] \in DOMAIN TwoCharKind /\ ln[k + 2] = "="
    THEN {k} \cup OperatorScan(ln, k + 2)
    ELSE OperatorScan(ln, k + 1)

\* The characters of the text of a two-character operator.
Word2(lx) ==
    CASE lx = "==" -> <<"=", "=">>
      [] lx = "<=" -> <<"<", "=">>
      [] lx = ">=" -> <<">", "=">>
      [] lx = "!=" -> <<"!", "=">>

\* The tokens of row r that start at column k.
TokensAt(r, k) ==
    {n \in 1..Len(lexer_tokens_) :
        lexer_tokens_[n].line = r /\ lexer_tokens_[n].column = k}

\* C11: each occurrence of ==, <=, >= or != in a source line is emitted as one
\* token of kind Equal, LessThanEqual, MoreThanEqual or NotEqual whose text is
\* the two characters; the two characters are never emitted as two adjacent
\* single-character tokens, and no token starts at the second character.
C11_TwoCharOperators ==
    lpc = "done" =>
        \A r \in 1..Len(lines) : \A k \in OperatorScan(lines[r], 0) :
            /\ \E n \in 1..Len(lexer_tokens_) :
                  /\ TokensAt(r - 1, k) = {n}
                  /\ lexer_tokens_[n].type = TwoCharKind[lines[r][k + 1]]
                  /\ lexer_tokens_[n].lexme \in {"==", "<=", ">=", "!="}
                  /\ Word2(lexer_tokens_[n].lexme) = SubSeq(lines[r], k + 1, k + 2)
            /\ TokensAt(r - 1, k + 1) = {}

\* The lexer has read the line a>=b==!c to its end: >= is the first token and
\* == the second.
C11_Witness ==
    /\ lpc = "done"
    /\ lines = <<LineEqual>>
    /\ Len(lexer_tokens_) = 3
    /\ lexer_tokens_[1].type = "MORETHANEQUAL"
    /\ lexer_tokens_[2].type = "EQUAL"
    /\ lexer_tokens_[3].type = "NOT"

\* Characters that start no token.
StartNoToken == {"@", "#"}

\* C12 as claimed: when the source contains a character that starts no token,
\* tokenization aborts at that character: the lexer never reads past its row
\* and column, and it does not return a token sequence.
C12_UnexpectedCharacter ==
    \A r \in 1..Len(lines) : \A k \in 1..Len(lines[r]) :
        lines[r][k] \in StartNoToken =>
            /\ lpc # "done"
            /\ lpc = "line" => (row < r - 1 \/ (row = r - 1 /\ i <= k - 1))

----------------------------------------------------------------------------
(* Properties of function declarations *)

\* The node of each statement of StatementChoices.
StatementNode(st) ==
    CASE st = "return" -> returnNode(binaryOpNode("+", Var("a"), Var("b")))
      [] st = "assign" -> assignOpNode("a", intLiteralNode(5), "=")
      [] st = "declare" -> varDeclNode("INT", "c", Null)

\* The Function node of the declaration written with rt, ps and sts.
FnNode(rt, ps, sts) ==
    [type |-> "FUNCTION",
     returnType |-> IF rt.kind = "" THEN "VOID" ELSE rt.kind,
     name |-> "add",
     params |-> [k \in 1..Len(ps) |-> [type |-> ps[k].kind, name |-> ps[k].name]],
     body |-> [type |-> "BODY", statements |-> [k \in 1..Len(sts) |-> StatementNode(sts[k])]]]

\* C13: a declaration fn name ( type1 p1, ..., typeN pN ) { statements }
\* parses to one Function node with that name, the N parameters as (type, name)
\* pairs in source order and a Body holding the statements in source order;
\* when no type keyword follows fn the return type is Void.
C13_FunctionNode ==
    (pc = "done" /\ tokens_ # <<>> /\ tokens_[1].type = "FUNCTION") =>
        \A rt \in ReturnChoices : \A ps \in SeqsUpTo(ParamChoices, MaxParams) :
            \A sts \in SeqsUpTo(StatementChoices, MaxStatements) :
                tokens_ = Locate(FnDecl(rt, ps, sts)) =>
                    /\ outcome = "returned"
                    /\ reported = <<>>
                    /\ root_ = [type |-> "PROGRAM",
                                declarations |-> <<FnNode(rt, ps, sts)>>]

\* fn add(int a, int b) { return a + b; } has been built: the parameters are
\* [(Int, a), (Int, b)] and the body is [Return(BinaryOp(+, a, b))].
C13_Witness ==
    /\ pc = "done"
    /\ [k \in 1..Len(tokens_) |-> tokens_[k].lexme]
          = <<"fn", "add", "(", "int", "a", ",", "int", "b", ")", "{",
              "return", "a", "+", "b", ";", "}">>
    /\ root_ # Null
    /\ Len(root_.declarations) = 1
    /\ root_.declarations[1].returnType = "VOID"
    /\ root_.declarations[1].name = "add"
    /\ root_.declarations[1].params
          = <<[type |-> "INT", name |-> "a"], [type |-> "INT", name |-> "b"]>>
    /\ root_.declarations[1].body.statements
          = <<returnNode(binaryOpNode("+", Var("a"), Var("b")))>>

----------------------------------------------------------------------------
(* Determinism *)

----------------------------------------------------------------------------
(* The cursor *)

TokenKinds == {tokens_[k].type : k \in 1..Len(tokens_)} \cup {"UNKNOWN", "SEMICOLON"}

\* From the cursor p each primitive leaves the cursor at p or p + 1 and within
\* the token sequence.
PrimitivesStep(p) ==
    /\ advance(tokens_, p) \in {p, p + 1} \cap (0..Len(tokens_))
    /\ \A t \in TokenKinds :
          /\ check(tokens_, p, t) => p < Len(tokens_)
          /\ match(tokens_, p, {t}) => (p < Len(tokens_) /\ tokens_[p + 1].type = t)
          /\ consume(tokens_, p, t, "Expected").pos \in {p, p + 1} \cap (0..Len(tokens_))
          /\ consume(tokens_, p, t, "Expected").ok => tokens_[p + 1].type = t

\* A peek inside the sequence gives the token under the cursor, a peek at the
\* end the end-of-stream token.
PeekSafe(p) ==
    peek(tokens_, p) = IF p < Len(tokens_) THEN tokens_[p + 1]
                       ELSE [type |-> "UNKNOWN", lexme |-> "", line |-> -1, column |-> -1]

\* The cursor positions the parse functions were entered and left at are in order.
AttemptsInOrder ==
    \A k \in 1..Len(attempts) :
        /\ 0 <= attempts[k].at
        /\ attempts[k].at <= attempts[k].threw
        /\ attempts[k].threw <= current_
        /\ k < Len(attempts) => attempts[k].threw <= attempts[k + 1].at

CursorInRange ==
    /\ current_ \in 0..Len(tokens_)
    /\ AttemptsInOrder
    /\ PeekSafe(current_)
    /\ pc = "start" => \A p \in 0..Len(tokens_) : PrimitivesStep(p) /\ PeekSafe(p)

\* C15: in every reachable parser state 0 <= current <= number of tokens, the
\* cursor never decreases, each primitive moves it by at most one, and a peek
\* at the end position returns the end-of-stream token (kind Unknown, empty
\* text).
C15_Cursor == []CursorInRange /\ [][current_' >= current_]_vars

\* A parse has looked ahead at the end of the tokens: its error names the
\* end-of-stream token, and the cursor stands at the end.
C15_Witness ==
    /\ pc = "loop"
    /\ current_ = Len(tokens_)
    /\ Len(attempts) = 2
    /\ attempts[1].ok
    /\ ~attempts[2].ok
    /\ attempts[2].threw = Len(tokens_)
    /\ attempts[2].err.found = ""
    /\ attempts[2].err.line = -1

----------------------------------------------------------------------------
(* Synchronization *)

LeftInPlace == {"RBRACE", "FUNCTION", "IF", "WHILE", "FOR", "RETURN"}

\* Where synchronization from the cursor p ends: behind the first token from p
\* on that is a ';', or in front of the first that is one of LeftInPlace,
\* whichever comes first, and at the end when there is none.
SyncTarget(toks, p) ==
    LET stops == {k \in (p + 1)..Len(toks) :
                     toks[k].type \in LeftInPlace \cup {"SEMICOLON"}}
    IN IF stops = {} THEN Len(toks)
       ELSE LET k == CHOOSE m \in stops : \A n \in stops : m <= n
            IN IF toks[k].type = "SEMICOLON" THEN k ELSE k - 1

\* The attempt that follows a failed one starts where synchronization ended,
\* or behind the ';' and '}' that stand there and start no declaration.
ResumedFromTarget ==
    \A k \in 1..Len(attempts) :
        ~attempts[k].ok =>
            LET target == SyncTarget(tokens_, attempts[k].threw)
            IN /\ current_ >= target
               /\ k < Len(attempts) =>
                     /\ attempts[k + 1].at >= target
                     /\ \A q \in (target + 1)..attempts[k + 1].at :
                           tokens_[q].type \in {"SEMICOLON", "RBRACE"}

\* The step of build that catches a parse error.
ErrorCaught ==
    /\ Len(attempts') = Len(attempts) + 1
    /\ ~attempts'[Len(attempts')].ok

C17_NeverCrosses ==
    pc = "done" =>
        \A m \in MalformedDecls : \A d \in WellFormedDecls :
            tokens_ = Locate(m \o d) =>
                /\ ~attempts[1].ok
                /\ SyncTarget(tokens_, attempts[1].threw) <= Len(m)
                /\ \E k \in 2..Len(attempts) :
                      /\ attempts[k].at = Len(m)
                      /\ attempts[k].ok
                      /\ attempts[k].threw = Len(tokens_)
                /\ declarations # <<>>
                /\ declarations[Len(declarations)] = parseDeclaration(Locate(d), 0).node

----------------------------------------------------------------------------
(* Words, keywords and string literals *)

\* The text of each line of WordLines.
WordText(ln) ==
    CASE ln = LineIffy -> "iffy"
      [] ln = LineInteger -> "integer"
      [] ln = LineFormat -> "format"
      [] ln = LineMyif -> "myif"

KeywordKinds ==
    {"IF", "ELSEIF", "ELSE", "FOR", "WHILE", "CONTINUE", "BREAK", "RETURN", "FUNCTION",
     "VOID", "INT", "DOUBLE", "BOOLEAN", "CHAR", "STRING"}

\* C18 as claimed: a word that only starts with or contains a keyword is lexed
\* as exactly one Identifier token whose text is the whole word, and yields no
\* keyword token.
C18_WholeWords ==
    \A ln \in WordLines :
        (lines = <<ln>> /\ lpc = "done") =>
            /\ \A n \in 1..Len(lexer_tokens_) : lexer_tokens_[n].type \notin KeywordKinds
            /\ lexer_tokens_ = <<[type |-> "IDENTIFIER", lexme |-> WordText(ln),
                                 line |-> 0, column |-> 0]>>

\* The keywords of the token vocabulary: text, characters and token kind.
Keywords ==
    {[text |-> "if", kind |-> "IF"], [text |-> "elif", kind |-> "ELSEIF"],
     [text |-> "else", kind |-> "ELSE"], [text |-> "for", kind |-> "FOR"],
     [text |-> "while", kind |-> "WHILE"], [text |-> "continue", kind |-> "CONTINUE"],
     [text |-> "break", kind |-> "BREAK"], [text |-> "return", kind |-> "RETURN"],
     [text |-> "fn", kind |-> "FUNCTION"], [text |-> "void", kind |-> "VOID"],
     [text |-> "int", kind |-> "INT"], [text |-> "double", kind |-> "DOUBLE"],
     [text |-> "boolean", kind |-> "BOOLEAN"], [text |-> "char", kind |-> "CHAR"],
     [text |-> "string", kind |-> "STRING"]}

KeywordChars(text) == IF text = "void" THEN LineVoid ELSE Word(text)

\* C19 as claimed: each keyword, written as a whole word, yields exactly one
\* token of its own kind with the keyword as text.
C19_Keywords ==
    \A kw \in Keywords :
        (lines = <<KeywordChars(kw.text)>> /\ lpc = "done") =>
            lexer_tokens_ = <<[type |-> kw.kind, lexme |-> kw.text,
                               line |-> 0, column |-> 0]>>

\* The kinds and texts of the tokens the lexer has emitted.
Emitted == [n \in 1..Len(lexer_tokens_) |->
               <<lexer_tokens_[n].type, lexer_tokens_[n].lexme>>]

\* C20 as claimed: a " starts a string literal; the lexer emits one String
\* token whose text is the characters between the quotes, and a keyword, an
\* operator or // inside the quotes is not tokenized.
C20_StringLiteral ==
    lpc = "done" =>
        /\ lines = <<LineQuotedIf>> => Emitted = <<<<"STRING", "if">>>>
        /\ lines = <<LineQuotedAdd>> =>
              Emitted = <<<<"STRING", "a+b">>, <<"SEMICOLON", ";">>>>
        /\ lines = <<LineQuotedComment>> =>
              Emitted = <<<<"STRING", "a//b">>, <<"SEMICOLON", ";">>>>

----------------------------------------------------------------------------
(* Comments *)

\* The tokens of row r, without their line.
TokensOfRow(r) ==
    LET ofRow == SelectSeq(lexer_tokens_, LAMBDA t : t.line = r)
    IN [n \in 1..Len(ofRow) |->
           [type |-> ofRow[n].type, lexme |-> ofRow[n].lexme, column |-> ofRow[n].column]]

\* C21: when // occurs in a line, no token is produced from the // or from any
\* later character of that line, the tokens produced from the text before it
\* are those the same line gives when it ends there, and lexing continues
\* normally on the next line.
C21_Comment ==
    lpc = "done" =>
        \A r \in 1..Len(lines) :
            CommentStart(lines[r]) < Len(lines[r]) =>
                /\ \A n \in 1..Len(lexer_tokens_) :
                      lexer_tokens_[n].line = r - 1 =>
                          lexer_tokens_[n].column < CommentStart(lines[r])
                /\ \A q \in 1..Len(lines) :
                      lines[q] = BeforeComment(lines[r]) =>
                          TokensOfRow(q - 1) = TokensOfRow(r - 1)

\* The lines "return a; // if" and "return a; " have been read: each gave
\* return and ; and the if of the comment gave nothing.
C21_Witness ==
    /\ lpc = "done"
    /\ lines = <<LineComment, BeforeComment(LineComment)>>
    /\ Len(lexer_tokens_) = 4
    /\ TokensOfRow(0) = TokensOfRow(1)
    /\ lexer_tokens_[3].line = 1
    /\ lexer_tokens_[3].type = "RETURN"

----------------------------------------------------------------------------
(* while and for statements *)

\* What consume reports when the token t stands at index k of toks, or none
\* does, where msg asks for another token.
UnexpectedToken(msg, toks, k) ==
    IF k <= Len(toks)
    THEN [msg |-> msg, line |-> toks[k].line, column |-> toks[k].column,
          found |-> toks[k].lexme]
    ELSE [msg |-> msg, line |-> -1, column |-> -1, found |-> ""]

\* C22: a while or for statement is accepted only when the '}' closing its
\* body is directly followed by ';': with the ';' it yields a While or For
\* node, and without it the statement fails with the error of consume at the
\* token that follows the '}'.
C22_TrailingSemicolon ==
    Len(attempts) >= 1 =>
        \A l \in LoopStatements : \A f \in LoopFollowers :
            tokens_ = Locate(l \o f) =>
                IF f # <<>> /\ f[1].type = "SEMICOLON"
                THEN /\ attempts[1].ok
                     /\ attempts[1].threw = Len(l) + 1
                     /\ declarations[1].type = l[1].type
                     /\ declarations[1].body.type = "BODY"
                ELSE /\ ~attempts[1].ok
                     /\ attempts[1].threw = Len(l)
                     /\ attempts[1].err =
                           UnexpectedToken(IF l[1].type = "WHILE"
                                           THEN "Expected ';' after while body"
                                           ELSE "Expected ';' after for body",
                                           tokens_, Len(l) + 1)
                     /\ \A n \in 1..Len(declarations) :
                           declarations[n].type \notin {"WHILE", "FOR"}

\* while ( a ) { } a ; has failed at the identifier that follows the '}'.
C22_Witness ==
    /\ Len(attempts) >= 1
    /\ tokens_[1].type = "WHILE"
    /\ Len(tokens_) = 8
    /\ ~attempts[1].ok
    /\ attempts[1].threw = 6
    /\ attempts[1].err.found = "a"
    /\ attempts[1].err.column = 6

----------------------------------------------------------------------------
(* Positions of the tokens *)

\* The characters of a token's text.
Chars(lx) ==
    IF lx \in {"if", "elif", "else", "for", "while", "continue", "break", "return", "fn",
               "int", "double", "boolean", "char", "string"}
    THEN Word(lx)
    ELSE IF lx \in {"==", "<=", ">=", "!="} THEN Word2(lx)
    ELSE <<lx>>

\* Each token carries the index of its line and, in it, of its first character.
Located ==
    \A n \in 1..Len(lexer_tokens_) :
        LET t == lexer_tokens_[n]
        IN /\ t.line \in 0..(Len(lines) - 1)
           /\ t.line <= row
           /\ t.column \in 0..(Len(lines[t.line + 1]) - 1)
           /\ SubSeq(lines[t.line + 1], t.column + 1, t.column + Len(Chars(t.lexme)))
                 = Chars(t.lexme)

\* For consecutive tokens the line does not decrease, and within one line the
\* column strictly increases.
Ordered ==
    \A n \in 1..(Len(lexer_tokens_) - 1) :
        \/ lexer_tokens_[n].line < lexer_tokens_[n + 1].line
        \/ /\ lexer_tokens_[n].line = lexer_tokens_[n + 1].line
           /\ lexer_tokens_[n].column < lexer_tokens_[n + 1].column

\* A step leaves the tokens as they are or adds one at the end.
AppendOnly ==
    /\ Len(lexer_tokens_') \in {Len(lexer_tokens_), Len(lexer_tokens_) + 1}
    /\ SubSeq(lexer_tokens_', 1, Len(lexer_tokens_)) = lexer_tokens_

\* C23: every emitted token carries the 0-based index of its source line and
\* the 0-based index in that line of its first character, and the token
\* sequence is append-only and ordered: for consecutive tokens the line does
\* not decrease, and within one line the column strictly increases.
C23_Positions == [](Located /\ Ordered) /\ [][AppendOnly]_vars

\* Two lines have been read, each gave tokens, and the last token of the
\* second line does not stand at its start.
C23_Witness ==
    /\ lpc = "done"
    /\ Len(lines) = 2
    /\ Len(lexer_tokens_) >= 4
    /\ lexer_tokens_[1].line = 0
    /\ lexer_tokens_[2].line = 0
    /\ lexer_tokens_[Len(lexer_tokens_)].line = 1
    /\ lexer_tokens_[Len(lexer_tokens_)].column > 3

----------------------------------------------------------------------------
(* Variable declarations *)

\* The nodes a node owns directly.
Children(n) ==
    CASE n.type = "UNARYOP" -> {n.operand}
      [] n.type = "BINARYOP" -> {n.left, n.right}
      [] n.type = "ASSIGNOP" -> {n.value}
      [] n.type = "FNCALL" -> {n.args[k] : k \in 1..Len(n.args)}
      [] n.type = "IF" -> {n.condition, n.thenBody, n.elseBody}
      [] n.type = "FOR" -> {n.init, n.condition, n.increment, n.body}
      [] n.type = "WHILE" -> {n.condition, n.body}
      [] n.type = "RETURN" -> {n.value}
      [] n.type = "VARDECL" -> {n.initializer}
      [] n.type = "FUNCTION" -> {n.body}
      [] n.type = "BODY" -> {n.statements[k] : k \in 1..Len(n.statements)}
      [] n.type = "PROGRAM" -> {n.declarations[k] : k \in 1..Len(n.declarations)}
      [] OTHER -> {}

RECURSIVE VarDecls(_)
\* The VarDecl nodes of the tree under n.
VarDecls(n) ==
    (IF n.type = "VARDECL" THEN {n} ELSE {})
        \cup UNION {VarDecls(c) : c \in Children(n)}

DeclaredTypes == {"INT", "DOUBLE", "CHAR", "BOOLEAN", "STRING"}

\* C24: in every tree the parser constructs, each VarDecl node has a varType
\* among Int, Double, Char, Boolean, String; its type is never Inferred.
C24_DeclaredTypes ==
    /\ \A k \in 1..Len(declarations) :
          \A v \in VarDecls(declarations[k]) : v.varType \in DeclaredTypes
    /\ \A v \in VarDecls(root_) : v.varType \in DeclaredTypes

\* A tree with an int declared, with a value, in the initializer of a for
\* statement has been built.
C24_Witness ==
    /\ root_ # Null
    /\ \E v \in VarDecls(root_) : v.varType = "INT" /\ v.initializer # Null
    /\ \E k \in 1..Len(root_.declarations) :
          /\ root_.declarations[k].type = "FOR"
          /\ \E v \in VarDecls(root_.declarations[k].init) : v.varType = "INT"

----------------------------------------------------------------------------
(* Compound assignment, from the source to the tree *)

\* C25 as claimed: a compound assignment in the source, a += b; and likewise
\* with -=, *=, /=, %=, run through the lexer and then the parser, yields one
\* AssignOp node with target a, op equal to the operator's two-character
\* spelling and value the parsed right-hand side.
C25_CompoundAssignment ==
    \A op \in {"+=", "-=", "*=", "/=", "%="} :
        (lines = <<AssignLine(op)>> /\ pc = "done") =>
            /\ outcome = "returned"
            /\ root_ = [type |-> "PROGRAM",
                        declarations |->
                            <<[type |-> "ASSIGNOP", targetName |-> "a",
                               value |-> Var("b"), op |-> op]>>]

----------------------------------------------------------------------------
(* Termination *)

\* An iteration of the top-level loop that leaves build in the loop has
\* advanced the cursor.
LoopProgress == (pc = "loop" /\ pc' = "loop") => current_' > current_

\* An iteration of the statement loop of parseBody, entered with the cursor p
\* on a token that is not '}', advances the cursor or raises an error.
BodyProgress ==
    pc = "start" =>
        \A p \in 0..(Len(tokens_) - 1) :
            ~check(tokens_, p, "RBRACE") =>
                IF match(tokens_, p, {"SEMICOLON"}) THEN advance(tokens_, p) > p
                ELSE \E stmt \in {parseDeclaration(tokens_, p)} : stmt.ok => stmt.pos > p

\* C26: for every finite token sequence build terminates, with success or
\* with a failure: each iteration of the top-level loop, including one that
\* ends in a caught parse error followed by synchronization, advances the
\* cursor by at least one token, and each iteration of the statement loop in
\* parseBody either advances the cursor or raises an error.
C26_Terminates ==
    /\ <>(pc = "done" /\ outcome \in {"returned", EmptyInput, BuildFailed})
    /\ [][LoopProgress]_vars
    /\ []BodyProgress

\* build has ended after four iterations of the top-level loop, one of which
\* caught a parse error.
C26_Witness ==
    /\ pc = "done"
    /\ Len(attempts) = 4
    /\ \E k \in 1..4 : ~attempts[k].ok
    /\ \E k \in 1..4 : attempts[k].ok

----------------------------------------------------------------------------
(* Token sequences of stray tokens only *)

\* The token sequence is not empty and holds nothing but ';' and '}'.
OnlyStray ==
    /\ tokens_ # <<>>
    /\ \A k \in 1..Len(tokens_) : tokens_[k].type \in {"SEMICOLON", "RBRACE"}

\* C27: for a non-empty token sequence that consists only of ';' and '}'
\* tokens build skips every token, reports no error and succeeds with a
\* Program that has zero declarations; EmptyInput is raised only when the
\* token sequence itself is empty.
C27_OnlyStray ==
    /\ OnlyStray =>
          /\ attempts = <<>>
          /\ reported = <<>>
          /\ ~hadError
          /\ declarations = <<>>
          /\ outcome \notin {EmptyInput, BuildFailed}
          /\ pc = "loop" => current_ \in 0..Len(tokens_)
          /\ pc = "done" =>
                /\ outcome = "returned"
                /\ current_ = Len(tokens_)
                /\ root_ = programNode(<<>>)
    /\ (pc = "done" /\ tokens_ # <<>>) => outcome # EmptyInput

\* build has returned an empty Program for a sequence that holds both a ';'
\* and a '}'.
C27_Witness ==
    /\ OnlyStray
    /\ \E k \in 1..Len(tokens_) : tokens_[k].type = "SEMICOLON"
    /\ \E k \in 1..Len(tokens_) : tokens_[k].type = "RBRACE"
    /\ pc = "done"
    /\ outcome = "returned"
    /\ root_ = programNode(<<>>)

====
